---- MODULE Spec2Model ----
(***************************************************************************)
(* parklogic: the traffic orchestrator (TrafficSystem), the facility spot  *)
(* reservation protocol and the vehicle life cycle.                        *)
(*                                                                         *)
(* Lengths are fixed-point: one unit is 1/70 m, so that an art pixel       *)
(* (1/7 m) is 10 units and a tenth of a metre is 7 units.                  *)
(***************************************************************************)
EXTENDS Integers, Sequences, FiniteSets, TLC

\* ------------------------------------------------------------------ bounds

\* Vehicles created over a run (ids 1..MaxCars).
MaxCars == 2
\* CreateCarEvents published and not yet consumed by the entity manager.
MaxPending == 1

\* ------------------------------------------------------- program constants

ART_PIXELS_PER_METER == 7
LANE_OFFSET_DOWN == 94
LANE_OFFSET_UP == 61
BATTERY_LOW_THRESHOLD == 30
BATTERY_HIGH_THRESHOLD == 70
BATTERY_EXIT_THRESHOLD == 80
BATTERY_FORCE_EXIT_THRESHOLD == 95
\* float bestMetric = std::numeric_limits<float>::max()
FLT_MAX == 2000000000
\* the sentinel "none" of getRandomSpotIndex / getParkedSpotIndex
NoSpot == -1
\* a null Module*
NoModule == 0

\* art pixels -> length units (P2M gives metres: artPixels / 7)
P2M(artPixels) == (artPixels * 70) \div ART_PIXELS_PER_METER
\* metres -> length units
Meters(m) == m * 70
\* tenths of a metre -> length units (tolerances 2.5f, 1.5f, 0.2f)
Tenths(t) == t * 7

\* --------------------------------------------------------------- geometry

RoadKinds == {"NormalRoad", "UpEntranceRoad", "DownEntranceRoad", "DoubleEntranceRoad"}
ParkingKinds == {"SmallParking", "LargeParking"}
ChargingKinds == {"SmallChargingStation", "LargeChargingStation"}

\* Module(w, h) of each class, in art pixels.
ModuleWidth(kind) ==
  CASE kind = "NormalRoad" -> P2M(283)
    [] kind \in {"UpEntranceRoad", "DownEntranceRoad", "DoubleEntranceRoad"} -> P2M(284)
    [] kind = "SmallParking" -> P2M(274)
    [] kind = "LargeParking" -> P2M(436)
    [] kind = "SmallChargingStation" -> P2M(219)
    [] kind = "LargeChargingStation" -> P2M(274)

ModuleHeight(kind) ==
  CASE kind \in RoadKinds -> P2M(155)
    [] kind = "SmallParking" -> P2M(330)
    [] kind = "LargeParking" -> P2M(363)
    [] kind = "SmallChargingStation" -> P2M(168)
    [] kind = "LargeChargingStation" -> P2M(330)

\* The first local waypoint each constructor adds.
LocalWaypoint(kind) ==
  CASE kind = "NormalRoad" -> <<ModuleWidth(kind) \div 2, P2M(78)>>
    [] kind \in {"UpEntranceRoad", "DownEntranceRoad", "DoubleEntranceRoad"} -> <<P2M(142), P2M(78)>>
    [] kind = "SmallChargingStation" -> <<P2M(163), ModuleHeight(kind) \div 2>>
    [] OTHER -> <<P2M(218), ModuleHeight(kind) \div 2>>

\* A spot of a facility: position in the facility, facing (degrees), id, price.
Spot(x, y, deg, id, price) ==
  [localPosition |-> <<x, y>>, orientation |-> deg, id |-> id, price |-> price]

Road(kind, x) ==
  [kind |-> kind, worldPosition |-> <<x, 0>>, isTop |-> FALSE, parent |-> NoModule,
   spots |-> <<>>]

Facility(kind, x, y, isTop, parent, spots) ==
  [kind |-> kind, worldPosition |-> <<x, y>>, isTop |-> isTop, parent |-> parent,
   spots |-> spots]

\* The finished maps the generator hands over: an exterior road at each end,
\* entrance roads between them, facilities attached above or below.
MixedMap ==
  << Road("NormalRoad", 0),
     Road("UpEntranceRoad", 2830),
     Facility("SmallParking", 2070, -3300, TRUE, 2, <<Spot(500, 600, 270, 0, 5)>>),
     Road("DoubleEntranceRoad", 5670),
     Facility("LargeParking", 4910, 1550, FALSE, 4,
              <<Spot(500, 2000, 90, 0, 2), Spot(900, 2000, 90, 1, 3)>>),
     Facility("SmallChargingStation", 5460, -1680, TRUE, 4, <<Spot(400, 300, 270, 0, 4)>>),
     Road("NormalRoad", 8510) >>

ChargingOnlyMap ==
  << Road("NormalRoad", 0),
     Road("UpEntranceRoad", 2830),
     Facility("LargeChargingStation", 2070, -3300, TRUE, 2, <<Spot(500, 600, 270, 0, 4)>>),
     Road("NormalRoad", 5670) >>

ParkingOnlyMap ==
  << Road("NormalRoad", 0),
     Road("DownEntranceRoad", 2830),
     Facility("SmallParking", 2070, 1550, FALSE, 2, <<Spot(500, 2000, 90, 0, 5)>>),
     Road("NormalRoad", 5670) >>

GeneratedMaps == <<MixedMap, ChargingOnlyMap, ParkingOnlyMap>>

\* Facilities that were never linked to a road (Module::parent is nullptr until
\* setParent): what the planner's fallback for a missing parent road is for.
DetachedMap ==
  << Road("NormalRoad", 0),
     Facility("SmallParking", 2070, -3300, TRUE, NoModule, <<Spot(500, 600, 270, 0, 5)>>),
     Facility("SmallChargingStation", 2070, 1550, FALSE, NoModule, <<Spot(400, 300, 90, 0, 4)>>),
     Road("NormalRoad", 5670) >>

Maps == GeneratedMaps \o <<DetachedMap>>

\* Maps a spawn request cannot be served on: no module at all (before the
\* generator has run), and modules but no NormalRoad among them.
EmptyMap == <<>>
RoadlessMap ==
  << Road("UpEntranceRoad", 0),
     Facility("SmallParking", -760, -3300, TRUE, 1, <<Spot(500, 600, 270, 0, 5)>>) >>

\* The finished maps, as sets.
MapsOf(ms) == {ms[k] : k \in 1..Len(ms)}

\* ------------------------------------------------------------------ state

VARIABLES
  map,          \* the finished map the entity manager holds (its modules, in order)
  spotState,    \* spotState[m][i]: state of spot i (0-based) of module m
  cars,         \* the live vehicles, in creation order (ids)
  car,          \* car[id]: the fields of vehicle id
  nextId,       \* ids handed out so far
  created,      \* CreateCarEvents published and not yet turned into a vehicle
  log           \* what the latest handler did, in order

vars == <<map, spotState, cars, car, nextId, created, log>>

CarIds == 1..MaxCars
modules == map
ModuleIds == 1..Len(modules)

SpotStates == {"FREE", "RESERVED", "OCCUPIED"}
CarStates == {"DRIVING", "ALIGNING", "PARKED", "EXITING"}

\* A vehicle that does not exist (not yet created, or removed).
NoCar ==
  [type |-> "NONE", battery |-> 0, priority |-> "NONE", enteredFromLeft |-> FALSE,
   position |-> <<0, 0>>, velocityX |-> 0, state |-> "NONE",
   parkedFacility |-> NoModule, parkedSpotIndex |-> NoSpot,
   path |-> <<>>, arrived |-> FALSE]

\* One entry of the handler log.
Entry(ev, c, m, i, from, to) ==
  [ev |-> ev, car |-> c, fac |-> m, idx |-> i, from |-> from, to |-> to]

\* ----------------------------------------------------------------- Module

SpotIndices(m) == 0 .. (Len(modules[m].spots) - 1)

\* Module::getSpot(index): the static spot data with its current state.
getSpot(ss, m, i) == [data |-> modules[m].spots[i + 1], state |-> ss[m][i]]

\* Module::getSpotCounts()
getSpotCounts(ss, m) ==
  [free     |-> Cardinality({i \in SpotIndices(m) : ss[m][i] = "FREE"}),
   reserved |-> Cardinality({i \in SpotIndices(m) : ss[m][i] = "RESERVED"}),
   occupied |-> Cardinality({i \in SpotIndices(m) : ss[m][i] = "OCCUPIED"})]

\* Module::setSpotState(index, state): unconditional.
setSpotState(ss, m, i, s) == [ss EXCEPT ![m][i] = s]

\* A sampler that does not look at the spot states.
getRandomSpotIndexAny(ss, m) == SpotIndices(m) \cup {NoSpot}

\* Module::getRandomSpotIndex(): the values one call may return. A FREE spot's
\* index, chosen at random; the sentinel when the facility has no FREE spot.
getRandomSpotIndex(ss, m) ==
  LET free == {i \in SpotIndices(m) : ss[m][i] = "FREE"}
  IN  IF free = {} THEN {NoSpot} ELSE free

\* One draw of getRandomSpotIndex per module of F.
SpotDraws(ss, F) ==
  {d \in [F -> {NoSpot} \cup UNION {SpotIndices(m) : m \in F}] :
     \A m \in F : d[m] \in getRandomSpotIndex(ss, m)}

\* ------------------------------------------------------------- road bounds

RECURSIVE RoadScan(_, _, _)
\* The loop over the modules that keeps the smallest x and the largest x + w
\* of the NormalRoads; acc = <<minRoadX, maxRoadX>>.
RoadScan(k, minX, maxX) ==
  IF k > Len(modules) THEN <<minX, maxX>>
  ELSE LET mod == modules[k]
           x == mod.worldPosition[1]
           w == ModuleWidth(mod.kind)
       IN  IF mod.kind = "NormalRoad"
           THEN RoadScan(k + 1, IF x < minX THEN x ELSE minX,
                                IF x + w > maxX THEN x + w ELSE maxX)
           ELSE RoadScan(k + 1, minX, maxX)

\* minRoadX / maxRoadX with their defaults when the map has no NormalRoad.
RoadBounds ==
  LET r == RoadScan(1, FLT_MAX, -FLT_MAX)
  IN  [minRoadX |-> IF r[1] = FLT_MAX THEN 0 ELSE r[1],
       maxRoadX |-> IF r[2] = -FLT_MAX THEN Meters(100) ELSE r[2]]

RECURSIVE LeftRoadScan(_, _, _)
\* leftRoad: the first NormalRoad with the smallest x (0 when there is none).
LeftRoadScan(k, minX, best) ==
  IF k > Len(modules) THEN best
  ELSE IF modules[k].kind = "NormalRoad" /\ modules[k].worldPosition[1] < minX
       THEN LeftRoadScan(k + 1, modules[k].worldPosition[1], k)
       ELSE LeftRoadScan(k + 1, minX, best)

RECURSIVE RightRoadScan(_, _, _)
\* rightRoad: the first NormalRoad with the largest x + w (0 when there is none).
RightRoadScan(k, maxX, best) ==
  IF k > Len(modules) THEN best
  ELSE LET r == modules[k].worldPosition[1] + ModuleWidth(modules[k].kind)
       IN  IF modules[k].kind = "NormalRoad" /\ r > maxX
           THEN RightRoadScan(k + 1, r, k)
           ELSE RightRoadScan(k + 1, maxX, best)

\* ---------------------------------------------------------- spawn request

CarTypes == {"COMBUSTION", "ELECTRIC"}
Priorities == {"PRIORITY_PRICE", "PRIORITY_DISTANCE"}

\* A CreateCarEvent whose entry side is that of the lane's far end.
CreateCarEventFarSide(spawnLeft, carType, priority) ==
  LET leftRoad == LeftRoadScan(1, FLT_MAX, NoModule)
      rightRoad == RightRoadScan(1, -FLT_MAX, NoModule)
  IN  [spawnPos |->
         IF spawnLeft
         THEN <<modules[leftRoad].worldPosition[1],
                modules[leftRoad].worldPosition[2] + P2M(LANE_OFFSET_DOWN)>>
         ELSE <<modules[rightRoad].worldPosition[1] + ModuleWidth(modules[rightRoad].kind),
                modules[rightRoad].worldPosition[2] + P2M(LANE_OFFSET_UP)>>,
       spawnVelX |-> IF spawnLeft THEN 15 ELSE -15,
       carType |-> carType,
       priority |-> priority,
       enteredFromLeft |-> ~ spawnLeft]

\* CreateCarEvent{spawnPos, spawnVel, carType, priority, enteredFromLeft}
CreateCarEvent(spawnLeft, carType, priority) ==
  LET leftRoad == LeftRoadScan(1, FLT_MAX, NoModule)
      rightRoad == RightRoadScan(1, -FLT_MAX, NoModule)
  IN  [spawnPos |->
         IF spawnLeft
         THEN <<modules[leftRoad].worldPosition[1],
                modules[leftRoad].worldPosition[2] + P2M(LANE_OFFSET_DOWN)>>
         ELSE <<modules[rightRoad].worldPosition[1] + ModuleWidth(modules[rightRoad].kind),
                modules[rightRoad].worldPosition[2] + P2M(LANE_OFFSET_UP)>>,
       spawnVelX |-> IF spawnLeft THEN 15 ELSE -15,
       carType |-> carType,
       priority |-> priority,
       enteredFromLeft |-> spawnLeft]

\* A handler that publishes a CreateCarEvent on a map without a boundary road,
\* placed at the origin.
SpawnRequestAnywhere(trace) ==
  /\ Len(created) < MaxPending
  /\ nextId + Len(created) < MaxCars
  /\ LET leftRoad == LeftRoadScan(1, FLT_MAX, NoModule)
         rightRoad == RightRoadScan(1, -FLT_MAX, NoModule)
     IN  \E coin \in BOOLEAN, carType \in CarTypes, priority \in Priorities :
           /\ created' = Append(created,
                 IF leftRoad = NoModule \/ rightRoad = NoModule
                 THEN [spawnPos |-> <<0, 0>>, spawnVelX |-> 15, carType |-> carType,
                       priority |-> priority, enteredFromLeft |-> TRUE]
                 ELSE CreateCarEvent(coin, carType, priority))
           /\ log' = trace
  /\ UNCHANGED <<map, spotState, cars, car, nextId>>

\* The SpawnCarRequestEvent handler; trace is what it leaves in the handler
\* log.
SpawnRequestWith(trace) ==
  /\ Len(created) < MaxPending
  /\ nextId + Len(created) < MaxCars
  /\ LET leftRoad == LeftRoadScan(1, FLT_MAX, NoModule)
         rightRoad == RightRoadScan(1, -FLT_MAX, NoModule)
     IN  IF Len(modules) = 0 \/ (leftRoad = NoModule /\ rightRoad = NoModule)
         THEN /\ log' = trace
              /\ UNCHANGED created
         ELSE \E coin \in BOOLEAN, carType \in CarTypes, priority \in Priorities :
                LET spawnLeft == IF leftRoad = NoModule THEN FALSE
                                 ELSE IF rightRoad = NoModule THEN TRUE ELSE coin
                IN  /\ created' = Append(created, CreateCarEvent(spawnLeft, carType, priority))
                    /\ log' = trace
  /\ UNCHANGED <<map, spotState, cars, car, nextId>>

SpawnRequest == SpawnRequestWith(<<>>)

\* ------------------------------------------------------------ path planner

\* Waypoint(pos, tol, id, angle, stop, speedFactor = 1.0f); angles in degrees,
\* the speed factor in percent.
Waypoint(pos, tol, id, angle, stop) ==
  [position |-> pos, tolerance |-> tol, id |-> id, entryAngle |-> angle,
   stopAtEnd |-> stop, speedLimitFactor |-> 100]

Vector2Add(a, b) == <<a[1] + b[1], a[2] + b[2]>>

\* cosf / sinf of the facings the spots have (multiples of 90 degrees).
CosDeg(d) == CASE d % 360 = 0 -> 1 [] d % 360 = 180 -> -1 [] OTHER -> 0
SinDeg(d) == CASE d % 360 = 90 -> 1 [] d % 360 = 270 -> -1 [] OTHER -> 0

\* PathPlanner::CalculateRoadEntry(road, lane, useRightSide)
CalculateRoadEntry(road, lane, useRightSide) ==
  LET xCenter == P2M(142)
      yOffset == IF lane = "DOWN" THEN P2M(LANE_OFFSET_DOWN) ELSE P2M(LANE_OFFSET_UP)
      xOffset == IF useRightSide THEN P2M(18) ELSE -P2M(18)
  IN  Waypoint(Vector2Add(modules[road].worldPosition, <<xCenter + xOffset, yOffset>>),
               Tenths(25), -1, 0, FALSE)

\* PathPlanner::CalculateFacilityEntry(facility, useRightSide)
CalculateFacilityEntry(facility, useRightSide) ==
  LET basePos == LocalWaypoint(modules[facility].kind)
      offset == IF useRightSide THEN P2M(18) ELSE -P2M(18)
  IN  Waypoint(Vector2Add(modules[facility].worldPosition, Vector2Add(basePos, <<offset, 0>>)),
               Tenths(15), -1, 0, FALSE)

\* PathPlanner::CalculateAlignmentPoint(facility, spot)
CalculateAlignmentPoint(facility, spot) ==
  LET spotGlobal == Vector2Add(modules[facility].worldPosition, spot.localPosition)
      backAngle == spot.orientation + 180
      dist == Meters(8)
  IN  Waypoint(Vector2Add(spotGlobal, <<CosDeg(backAngle) * dist, SinDeg(backAngle) * dist>>),
               Tenths(10), -1, 0, FALSE)

\* PathPlanner::CalculateSpotPoint(facility, spot)
CalculateSpotPoint(facility, spot) ==
  Waypoint(Vector2Add(modules[facility].worldPosition, spot.localPosition),
           Tenths(2), spot.id, spot.orientation, TRUE)

\* A lane taken from the side the vehicle entered by.
PlannerLaneByEntrySide(cr) == IF cr.enteredFromLeft THEN "DOWN" ELSE "UP"

\* "Cars moving right (positive X) use DOWN lane."
PlannerLane(cr) == IF cr.velocityX > 0 THEN "DOWN" ELSE "UP"

\* "Entry logic: Up Fac -> Right (True), Down Fac -> Left (False)"
PlannerUseRightSide(targetFac) == modules[targetFac].isTop

\* A path without the fallback for a facility that has no parent road.
GeneratePathNoFallback(cr, targetFac, targetSpot) ==
  LET lane == PlannerLane(cr)
      useRightSide == PlannerUseRightSide(targetFac)
      parentRoad == modules[targetFac].parent
  IN  (IF parentRoad # NoModule
       THEN <<CalculateRoadEntry(parentRoad, lane, useRightSide)>>
       ELSE <<>>)
      \o << CalculateFacilityEntry(targetFac, useRightSide),
             CalculateAlignmentPoint(targetFac, targetSpot),
             CalculateSpotPoint(targetFac, targetSpot) >>

\* PathPlanner::GeneratePath(car, targetFac, targetSpot)
GeneratePath(cr, targetFac, targetSpot) ==
  LET lane == PlannerLane(cr)
      useRightSide == PlannerUseRightSide(targetFac)
      parentRoad == modules[targetFac].parent
  IN  << IF parentRoad # NoModule
         THEN CalculateRoadEntry(parentRoad, lane, useRightSide)
         ELSE CalculateFacilityEntry(targetFac, useRightSide),
         CalculateFacilityEntry(targetFac, useRightSide),
         CalculateAlignmentPoint(targetFac, targetSpot),
         CalculateSpotPoint(targetFac, targetSpot) >>

\* PathPlanner::GenerateExitPath(car, fac, spot, exitRight, finalX): back out to
\* the alignment point, re-enter the road in the lane of the exit direction,
\* end beyond the road edge.
GenerateExitPath(fac, spot, exitRight, finalX) ==
  LET laneY == IF exitRight THEN P2M(LANE_OFFSET_DOWN) ELSE P2M(LANE_OFFSET_UP)
      road == modules[fac].parent
      roadPos == IF road # NoModule THEN modules[road].worldPosition
                 ELSE modules[fac].worldPosition
  IN  << CalculateAlignmentPoint(fac, spot),
         Waypoint(Vector2Add(roadPos, <<P2M(142), laneY>>), Tenths(25), -1, 0, FALSE),
         Waypoint(<<finalX, roadPos[2] + laneY>>, Tenths(10), -1, 0, TRUE) >>

\* ------------------------------------------------------------------- Car

\* Car::setPath(path): the queue is replaced wholesale.
setPath(cr, path) == [cr EXCEPT !.path = path, !.arrived = FALSE]

\* Car::setState(state)
setState(cr, st) == [cr EXCEPT !.state = st]

\* Car::setParkingContext(facility, spot, spotIndex)
setParkingContext(cr, fac, idx) ==
  [cr EXCEPT !.parkedFacility = fac, !.parkedSpotIndex = idx]

\* Car::hasArrived(): the queue is consumed and its last waypoint said stop.
hasArrived(cr) == cr.arrived

\* Car::charge(amount): the level never passes 100.
charge(cr, amount) ==
  [cr EXCEPT !.battery = IF cr.battery + amount > 100 THEN 100 ELSE cr.battery + amount]

\* The battery levels a new electric vehicle may have: one below the low
\* threshold (always seeks charging) and one between the thresholds (seeks
\* charging or parking, by the draw).
BatteryLevels == {20, 50}

\* The vehicle the entity manager creates for a CreateCarEvent.
NewCar(e, battery) ==
  [type |-> e.carType, battery |-> battery, priority |-> e.priority,
   enteredFromLeft |-> e.enteredFromLeft, position |-> e.spawnPos,
   velocityX |-> e.spawnVelX, state |-> "DRIVING",
   parkedFacility |-> NoModule, parkedSpotIndex |-> NoSpot,
   path |-> <<>>, arrived |-> FALSE]

\* ---------------------------------------------------------- vehicle spawned

\* A seekCharging that draws for every electric vehicle, whatever its battery.
SeekChargingAlwaysDraws(type, battery) ==
  IF type # "ELECTRIC" THEN {FALSE} ELSE BOOLEAN

\* seekCharging: the values the handler may compute for a vehicle.
\* (float)GetRandomValue(0, 100) / 100.0f < t, t = (battery - LOW) / (HIGH - LOW)
SeekCharging(type, battery) ==
  IF type # "ELECTRIC" THEN {FALSE}
  ELSE IF battery < BATTERY_LOW_THRESHOLD THEN {TRUE}
  ELSE IF battery > BATTERY_HIGH_THRESHOLD THEN {FALSE}
  ELSE { ~ (r * (BATTERY_HIGH_THRESHOLD - BATTERY_LOW_THRESHOLD)
              < 100 * (battery - BATTERY_LOW_THRESHOLD)) : r \in 0..100 }

IsParking(m) == modules[m].kind \in ParkingKinds
IsCharging(m) == modules[m].kind \in ChargingKinds

\* The module ids 1..n in order, as a sequence.
ModuleSeq == [k \in 1..Len(modules) |-> k]

\* "Filter Facilities": the modules of the class the vehicle looks for.
FilterFacilities(type, seekCharging) ==
  IF type = "COMBUSTION" THEN SelectSeq(ModuleSeq, IsParking)
  ELSE IF seekCharging THEN SelectSeq(ModuleSeq, IsCharging)
  ELSE SelectSeq(ModuleSeq, IsParking)

\* A fallback that broadens to the other class whichever class found nothing.
CandidateFacilitiesEitherWay(type, seekCharging) ==
  LET facilities == FilterFacilities(type, seekCharging)
  IN  IF facilities = <<>>
      THEN IF seekCharging THEN SelectSeq(ModuleSeq, IsParking)
           ELSE SelectSeq(ModuleSeq, IsCharging)
      ELSE facilities

\* The facility list after the fallback taken when the filter found nothing.
CandidateFacilities(type, seekCharging) ==
  LET facilities == FilterFacilities(type, seekCharging)
  IN  IF facilities = <<>> /\ seekCharging
      THEN SelectSeq(ModuleSeq, IsParking)
      ELSE facilities

\* Vector2Distance(a, b), squared: the handler only compares distances.
Vector2DistanceSq(a, b) ==
  (a[1] - b[1]) * (a[1] - b[1]) + (a[2] - b[2]) * (a[2] - b[2])

RECURSIVE SelectByDistanceFirstFree(_, _, _, _, _, _)
\* A selection that keeps the first facility with a FREE spot, whatever its
\* distance.
SelectByDistanceFirstFree(ss, facilities, k, carPos, draw, best) ==
  IF k > Len(facilities) THEN best
  ELSE LET fac == facilities[k]
       IN  IF best.targetFac = NoModule /\ draw[fac] # NoSpot
           THEN SelectByDistanceFirstFree(ss, facilities, k + 1, carPos, draw,
                  [metric |-> Vector2DistanceSq(carPos, modules[fac].worldPosition),
                   targetFac |-> fac, spotIndex |-> draw[fac]])
           ELSE SelectByDistanceFirstFree(ss, facilities, k + 1, carPos, draw, best)

RECURSIVE SelectByDistance(_, _, _, _, _, _)
\* PRIORITY_DISTANCE: the loop over the facilities from position k on;
\* best = [metric, targetFac, spotIndex], draw[m] what getRandomSpotIndex returns.
SelectByDistance(ss, facilities, k, carPos, draw, best) ==
  IF k > Len(facilities) THEN best
  ELSE LET fac == facilities[k]
           dist == Vector2DistanceSq(carPos, modules[fac].worldPosition)
       IN  IF getSpotCounts(ss, fac).free = 0
           THEN SelectByDistance(ss, facilities, k + 1, carPos, draw, best)
           ELSE IF dist < best.metric /\ draw[fac] # NoSpot
           THEN SelectByDistance(ss, facilities, k + 1, carPos, draw,
                                 [metric |-> dist, targetFac |-> fac, spotIndex |-> draw[fac]])
           ELSE SelectByDistance(ss, facilities, k + 1, carPos, draw, best)

RECURSIVE SelectByPriceFirstSampled(_, _, _, _, _)
\* A selection that keeps the first sampled spot, whatever its price.
SelectByPriceFirstSampled(ss, facilities, k, draw, best) ==
  IF k > Len(facilities) THEN best
  ELSE LET fac == facilities[k]
           idx == draw[fac]
       IN  IF idx # NoSpot /\ best.targetFac = NoModule
           THEN SelectByPriceFirstSampled(ss, facilities, k + 1, draw,
                  [metric |-> getSpot(ss, fac, idx).data.price,
                   targetFac |-> fac, spotIndex |-> idx])
           ELSE SelectByPriceFirstSampled(ss, facilities, k + 1, draw, best)

RECURSIVE SelectByPrice(_, _, _, _, _)
\* PRIORITY_PRICE: one sampled FREE spot per facility, the cheapest kept.
SelectByPrice(ss, facilities, k, draw, best) ==
  IF k > Len(facilities) THEN best
  ELSE LET fac == facilities[k]
           idx == draw[fac]
       IN  IF idx = NoSpot
           THEN SelectByPrice(ss, facilities, k + 1, draw, best)
           ELSE IF getSpot(ss, fac, idx).data.price < best.metric
           THEN SelectByPrice(ss, facilities, k + 1, draw,
                              [metric |-> getSpot(ss, fac, idx).data.price,
                               targetFac |-> fac, spotIndex |-> idx])
           ELSE SelectByPrice(ss, facilities, k + 1, draw, best)

\* The selection by the vehicle's priority.
SelectFacility(ss, facilities, cr, draw) ==
  LET none == [metric |-> FLT_MAX, targetFac |-> NoModule, spotIndex |-> NoSpot]
  IN  IF cr.priority = "PRIORITY_DISTANCE"
      THEN SelectByDistance(ss, facilities, 1, cr.position, draw, none)
      ELSE SelectByPrice(ss, facilities, 1, draw, none)

\* A through path that leaves by the edge the vehicle came from.
ThroughTrafficBackwards(ss, c, cr) ==
  LET movingRight == cr.velocityX > 0
      finalX == IF movingRight THEN RoadBounds.minRoadX - Meters(2)
                ELSE RoadBounds.maxRoadX + Meters(2)
      exitPath == <<Waypoint(<<finalX, cr.position[2]>>, Tenths(10), -1, 0, TRUE)>>
  IN  [ss |-> ss,
       cr |-> setPath(setState(setPath(cr, exitPath), "EXITING"), exitPath),
       log |-> << Entry("setPath", c, NoModule, NoSpot, "", ""),
                  Entry("AssignPathEvent", c, NoModule, NoSpot, "", "") >>]

\* "Through Traffic": a one-waypoint path off the map, state EXITING.
ThroughTraffic(ss, c, cr) ==
  LET movingRight == cr.velocityX > 0
      finalX == IF movingRight THEN RoadBounds.maxRoadX + Meters(2)
                ELSE RoadBounds.minRoadX - Meters(2)
      exitPath == <<Waypoint(<<finalX, cr.position[2]>>, Tenths(10), -1, 0, TRUE)>>
  IN  [ss |-> ss,
       cr |-> setPath(setState(setPath(cr, exitPath), "EXITING"), exitPath),
       log |-> << Entry("setPath", c, NoModule, NoSpot, "", ""),
                  Entry("AssignPathEvent", c, NoModule, NoSpot, "", "") >>]

\* An assignment whose planner call stops the vehicle and marks the spot
\* OCCUPIED on the way.
ReserveAndAssignPlannerWrites(ss, c, cr, targetFac, spotIndex) ==
  LET ss1 == setSpotState(ss, targetFac, spotIndex, "RESERVED")
      spot == getSpot(ss1, targetFac, spotIndex)
      path == GeneratePath(cr, targetFac, spot.data)
      stopped == [cr EXCEPT !.velocityX = 0]
  IN  [ss |-> setSpotState(ss1, targetFac, spotIndex, "OCCUPIED"),
       cr |-> setPath(setParkingContext(stopped, targetFac, spotIndex), path),
       log |-> << Entry("setSpotState", c, targetFac, spotIndex,
                        ss[targetFac][spotIndex], "RESERVED"),
                  Entry("GeneratePath", c, targetFac, spotIndex, "", ""),
                  Entry("setParkingContext", c, targetFac, spotIndex, "", ""),
                  Entry("AssignPathEvent", c, targetFac, spotIndex, "", "") >>]

\* An assignment that reserves every FREE spot of the facility along with the
\* one picked.
ReserveAndAssignWholeFacility(ss, c, cr, targetFac, spotIndex) ==
  LET ss1 == [ss EXCEPT ![targetFac] =
                [i \in DOMAIN ss[targetFac] |->
                   IF ss[targetFac][i] = "FREE" THEN "RESERVED" ELSE ss[targetFac][i]]]
      spot == getSpot(ss1, targetFac, spotIndex)
      path == GeneratePath(cr, targetFac, spot.data)
  IN  [ss |-> ss1,
       cr |-> setPath(setParkingContext(cr, targetFac, spotIndex), path),
       log |-> << Entry("setSpotState", c, targetFac, spotIndex,
                        ss[targetFac][spotIndex], "RESERVED"),
                  Entry("GeneratePath", c, targetFac, spotIndex, "", ""),
                  Entry("setParkingContext", c, targetFac, spotIndex, "", ""),
                  Entry("AssignPathEvent", c, targetFac, spotIndex, "", "") >>]

\* An assignment that publishes the path before the spot is reserved and the
\* context stored.
ReserveAndAssignPublishesFirst(ss, c, cr, targetFac, spotIndex) ==
  LET ss1 == setSpotState(ss, targetFac, spotIndex, "RESERVED")
      spot == getSpot(ss1, targetFac, spotIndex)
      path == GeneratePath(cr, targetFac, spot.data)
  IN  [ss |-> ss1,
       cr |-> setPath(setParkingContext(cr, targetFac, spotIndex), path),
       log |-> << Entry("GeneratePath", c, targetFac, spotIndex, "", ""),
                  Entry("AssignPathEvent", c, targetFac, spotIndex, "", ""),
                  Entry("setSpotState", c, targetFac, spotIndex,
                        ss[targetFac][spotIndex], "RESERVED"),
                  Entry("setParkingContext", c, targetFac, spotIndex, "", "") >>]

\* "Reserve the spot immediately", generate the path, store the context,
\* publish the assignment (whose subscriber hands the path to the vehicle).
ReserveAndAssign(ss, c, cr, targetFac, spotIndex) ==
  LET ss1 == setSpotState(ss, targetFac, spotIndex, "RESERVED")
      spot == getSpot(ss1, targetFac, spotIndex)
      path == GeneratePath(cr, targetFac, spot.data)
  IN  [ss |-> ss1,
       cr |-> setPath(setParkingContext(cr, targetFac, spotIndex), path),
       log |-> << Entry("setSpotState", c, targetFac, spotIndex,
                        ss[targetFac][spotIndex], "RESERVED"),
                  Entry("GeneratePath", c, targetFac, spotIndex, "", ""),
                  Entry("setParkingContext", c, targetFac, spotIndex, "", ""),
                  Entry("AssignPathEvent", c, targetFac, spotIndex, "", "") >>]

\* A tail of the handler that reserves the first spot of a full facility.
ReserveRegardless(ss, c, cr, targetFac, spotIndex) ==
  IF targetFac = NoModule
  THEN ThroughTraffic(ss, c, cr)
  ELSE ReserveAndAssign(ss, c, cr, targetFac, IF spotIndex = NoSpot THEN 0 ELSE spotIndex)

\* The tail of the handler, from "Determine Spot" on.
AssignOrPassThrough(ss, c, cr, targetFac, spotIndex) ==
  IF spotIndex = NoSpot \/ targetFac = NoModule
  THEN ThroughTraffic(ss, c, cr)
  ELSE ReserveAndAssign(ss, c, cr, targetFac, spotIndex)

\* The handler returned before assigning anything.
NoFacilities(ss, c, cr) ==
  [ss |-> ss, cr |-> cr, log |-> <<>>]

\* The new vehicle joins the live set with what the handler decided. The log
\* opens with the notification and the class of facility the handler looked for.
Spawned(c, o, seekCharging) ==
  /\ spotState' = o.ss
  /\ car' = [car EXCEPT ![c] = o.cr]
  /\ cars' = Append(cars, c)
  /\ nextId' = c
  /\ created' = Tail(created)
  /\ log' = <<Entry("CarSpawnedEvent", c, NoModule, NoSpot, "",
                    IF seekCharging THEN "charging" ELSE "parking")>> \o o.log
  /\ UNCHANGED map

\* The entity manager creates the vehicle of the oldest CreateCarEvent and the
\* CarSpawnedEvent handler decides where it goes.
CarSpawnedWith(levels) ==
  /\ created # <<>>
  /\ LET e == Head(created)
         c == nextId + 1
     IN  \E battery \in (IF e.carType = "ELECTRIC" THEN levels ELSE {100}) :
         \E seekCharging \in SeekCharging(e.carType, battery) :
           LET cr == NewCar(e, battery)
               facilities == CandidateFacilities(e.carType, seekCharging)
               F == {facilities[k] : k \in 1..Len(facilities)}
           IN  IF facilities = <<>>
               THEN Spawned(c, NoFacilities(spotState, c, cr), seekCharging)
               ELSE \E draw \in SpotDraws(spotState, F) :
                      LET best == SelectFacility(spotState, facilities, cr, draw)
                      IN  IF best.targetFac = NoModule \/ best.spotIndex = NoSpot
                          THEN \E r \in 1..Len(facilities) :
                               \E again \in getRandomSpotIndex(spotState, facilities[r]) :
                               \E oncemore \in getRandomSpotIndex(spotState, facilities[r]) :
                                 Spawned(c, AssignOrPassThrough(spotState, c, cr, facilities[r],
                                            IF again = NoSpot THEN oncemore ELSE again),
                                         seekCharging)
                          ELSE Spawned(c, AssignOrPassThrough(spotState, c, cr,
                                          best.targetFac, best.spotIndex), seekCharging)

CarSpawned == CarSpawnedWith(BatteryLevels)

\* ------------------------------------------------------ the vehicle's update

RECURSIVE Advance(_)
\* The vehicle's updates up to the next change the orchestrator can see: it
\* seeks the front waypoint of its queue and pops it once within its tolerance;
\* with only the spot point left a DRIVING vehicle is ALIGNING; when the popped
\* tail said stop it has arrived (PARKED at its spot, or at the end of its way
\* out).
Advance(cr) ==
  LET wp == Head(cr.path)
      rest == Tail(cr.path)
  IN  IF rest = <<>>
      THEN [cr EXCEPT !.path = rest,
                      !.arrived = wp.stopAtEnd,
                      !.state = IF wp.stopAtEnd /\ cr.state \in {"DRIVING", "ALIGNING"}
                                THEN "PARKED" ELSE cr.state]
      ELSE IF cr.state = "DRIVING" /\ Len(rest) = 1 /\ rest[1].stopAtEnd
      THEN [cr EXCEPT !.path = rest, !.state = "ALIGNING"]
      ELSE Advance([cr EXCEPT !.path = rest])

\* Car::updateWithNeighbors of one live vehicle with a path.
CarUpdate(c) ==
  /\ \E k \in 1..Len(cars) : cars[k] = c
  /\ car[c].path # <<>>
  /\ car' = [car EXCEPT ![c] = Advance(car[c])]
  /\ log' = <<>>
  /\ UNCHANGED <<map, spotState, cars, nextId, created>>

\* ------------------------------------------------------------------- tick

\* CHARGING_RATE * dt of the ticks delivered.
ChargeAmounts == {40}

\* A promotion step that never runs.
PromoteNever(ss, cr) == ss

\* A promotion step that does not look at the vehicle's state.
PromoteAnyState(ss, cr) ==
  IF /\ cr.parkedFacility # NoModule /\ cr.parkedSpotIndex # NoSpot
     /\ getSpot(ss, cr.parkedFacility, cr.parkedSpotIndex).state = "RESERVED"
  THEN setSpotState(ss, cr.parkedFacility, cr.parkedSpotIndex, "OCCUPIED")
  ELSE ss

\* A promotion step that cancels the reservation of a vehicle still on its way.
PromoteOrCancel(ss, cr) ==
  LET fac == cr.parkedFacility
      idx == cr.parkedSpotIndex
  IN  IF fac # NoModule /\ idx # NoSpot /\ getSpot(ss, fac, idx).state = "RESERVED"
      THEN setSpotState(ss, fac, idx,
                        IF cr.state \in {"ALIGNING", "PARKED"} THEN "OCCUPIED" ELSE "FREE")
      ELSE ss

\* A promotion step that also runs for a vehicle on its way out.
PromoteWhileExiting(ss, cr) ==
  LET fac == cr.parkedFacility
      idx == cr.parkedSpotIndex
  IN  IF /\ cr.state \in {"ALIGNING", "PARKED", "EXITING"}
         /\ fac # NoModule /\ idx # NoSpot
         /\ getSpot(ss, fac, idx).state = "RESERVED"
      THEN setSpotState(ss, fac, idx, "OCCUPIED")
      ELSE ss

\* "Check for Arrival (Transition RESERVED -> OCCUPIED)"
Promote(ss, cr) ==
  LET fac == cr.parkedFacility
      idx == cr.parkedSpotIndex
  IN  IF /\ cr.state \in {"ALIGNING", "PARKED"}
         /\ fac # NoModule /\ idx # NoSpot
         /\ getSpot(ss, fac, idx).state = "RESERVED"
      THEN setSpotState(ss, fac, idx, "OCCUPIED")
      ELSE ss

\* A parked logic that reads the battery at a charging station without
\* charging.
ParkedLogicNoCharge(cr, ready, band, amount) ==
  IF cr.state # "PARKED" THEN [cr |-> cr, shouldExit |-> FALSE]
  ELSE LET isChargingSpot == cr.parkedFacility # NoModule /\ IsCharging(cr.parkedFacility)
       IN  IF isChargingSpot /\ cr.type = "ELECTRIC"
           THEN LET bat == cr.battery
                IN  [cr |-> cr,
                     shouldExit |-> IF bat > BATTERY_FORCE_EXIT_THRESHOLD THEN TRUE
                                    ELSE IF bat > BATTERY_EXIT_THRESHOLD THEN band
                                    ELSE FALSE]
           ELSE [cr |-> cr, shouldExit |-> ready]

\* A parked logic that decides on the battery level before charging.
ParkedLogicDecidesFirst(cr, ready, band, amount) ==
  IF cr.state # "PARKED" THEN [cr |-> cr, shouldExit |-> FALSE]
  ELSE LET isChargingSpot == cr.parkedFacility # NoModule /\ IsCharging(cr.parkedFacility)
       IN  IF isChargingSpot /\ cr.type = "ELECTRIC"
           THEN [cr |-> charge(cr, amount),
                 shouldExit |-> IF cr.battery > BATTERY_FORCE_EXIT_THRESHOLD THEN TRUE
                                ELSE IF cr.battery > BATTERY_EXIT_THRESHOLD THEN band
                                ELSE FALSE]
           ELSE [cr |-> cr, shouldExit |-> ready]

\* A parked logic in which the dwell timer also ends a charging stay.
ParkedLogicTimerToo(cr, ready, band, amount) ==
  IF cr.state # "PARKED" THEN [cr |-> cr, shouldExit |-> FALSE]
  ELSE LET isChargingSpot == cr.parkedFacility # NoModule /\ IsCharging(cr.parkedFacility)
       IN  IF isChargingSpot /\ cr.type = "ELECTRIC"
           THEN LET charged == charge(cr, amount)
                    bat == charged.battery
                IN  [cr |-> charged,
                     shouldExit |-> IF bat > BATTERY_FORCE_EXIT_THRESHOLD THEN TRUE
                                    ELSE IF bat > BATTERY_EXIT_THRESHOLD THEN band \/ ready
                                    ELSE ready]
           ELSE [cr |-> cr, shouldExit |-> ready]

\* "Handle Parked Logic (Charging vs Waiting)": the vehicle after charging and
\* shouldExit. ready is isReadyToLeave(), band the draw of the 80..95 band.
\* A parked logic that adds the charge amount to the level itself, unbounded.
ParkedLogicAddsRaw(cr, ready, band, amount) ==
  IF cr.state # "PARKED" THEN [cr |-> cr, shouldExit |-> FALSE]
  ELSE LET isChargingSpot == cr.parkedFacility # NoModule /\ IsCharging(cr.parkedFacility)
       IN  IF isChargingSpot /\ cr.type = "ELECTRIC"
           THEN LET charged == [cr EXCEPT !.battery = @ + amount]
                    bat == charged.battery
                IN  [cr |-> charged,
                     shouldExit |-> IF bat > BATTERY_FORCE_EXIT_THRESHOLD THEN TRUE
                                    ELSE IF bat > BATTERY_EXIT_THRESHOLD THEN band
                                    ELSE FALSE]
           ELSE [cr |-> cr, shouldExit |-> ready]

ParkedLogic(cr, ready, band, amount) ==
  IF cr.state # "PARKED" THEN [cr |-> cr, shouldExit |-> FALSE]
  ELSE LET isChargingSpot == cr.parkedFacility # NoModule /\ IsCharging(cr.parkedFacility)
       IN  IF isChargingSpot /\ cr.type = "ELECTRIC"
           THEN LET charged == charge(cr, amount)
                    bat == charged.battery
                IN  [cr |-> charged,
                     shouldExit |-> IF bat > BATTERY_FORCE_EXIT_THRESHOLD THEN TRUE
                                    ELSE IF bat > BATTERY_EXIT_THRESHOLD THEN band
                                    ELSE FALSE]
           ELSE [cr |-> cr, shouldExit |-> ready]

\* A direction that takes a PRIORITY_DISTANCE vehicle out by the far side.
ExitRightFarSide(cr, coin) ==
  IF cr.priority = "PRIORITY_DISTANCE" THEN cr.enteredFromLeft ELSE coin

\* "Decide Direction based on Priority"
ExitRight(cr, coin) ==
  IF cr.priority = "PRIORITY_DISTANCE" THEN ~ cr.enteredFromLeft ELSE coin

\* An exit that keeps the spot.
ExitParkingKeepsSpot(ss, c, cr, coin) ==
  LET fac == cr.parkedFacility
      idx == cr.parkedSpotIndex
      exitRight == ExitRight(cr, coin)
      finalX == IF exitRight THEN RoadBounds.maxRoadX + Meters(2)
                ELSE RoadBounds.minRoadX - Meters(2)
      path == GenerateExitPath(fac, modules[fac].spots[idx + 1], exitRight, finalX)
  IN  [ss |-> ss,
       cr |-> setState(setPath(cr, path), "EXITING"),
       log |-> << Entry("GenerateExitPath", c, fac, idx, "", ""),
                  Entry("setPath", c, fac, idx, "", "") >>]

\* An exit that generates the exit path first and frees the spot afterwards.
ExitParkingPathFirst(ss, c, cr, coin) ==
  LET fac == cr.parkedFacility
      idx == cr.parkedSpotIndex
      exitRight == ExitRight(cr, coin)
      finalX == IF exitRight THEN RoadBounds.maxRoadX + Meters(2)
                ELSE RoadBounds.minRoadX - Meters(2)
      path == GenerateExitPath(fac, modules[fac].spots[idx + 1], exitRight, finalX)
  IN  [ss |-> setSpotState(ss, fac, idx, "FREE"),
       cr |-> setState(setPath(cr, path), "EXITING"),
       log |-> << Entry("GenerateExitPath", c, fac, idx, "", ""),
                  Entry("setSpotState", c, fac, idx, ss[fac][idx], "FREE"),
                  Entry("setPath", c, fac, idx, "", "") >>]

\* An exit that puts the vehicle back in DRIVING.
ExitParkingBackToDriving(ss, c, cr, coin) ==
  LET fac == cr.parkedFacility
      idx == cr.parkedSpotIndex
      exitRight == ExitRight(cr, coin)
      finalX == IF exitRight THEN RoadBounds.maxRoadX + Meters(2)
                ELSE RoadBounds.minRoadX - Meters(2)
      path == GenerateExitPath(fac, modules[fac].spots[idx + 1], exitRight, finalX)
  IN  [ss |-> setSpotState(ss, fac, idx, "FREE"),
       cr |-> setState(setPath(cr, path), "DRIVING"),
       log |-> << Entry("setSpotState", c, fac, idx, ss[fac][idx], "FREE"),
                  Entry("GenerateExitPath", c, fac, idx, "", ""),
                  Entry("setPath", c, fac, idx, "", "") >>]

\* An exit that leaves the spot RESERVED instead of FREE.
ExitParkingLeavesReserved(ss, c, cr, coin) ==
  LET fac == cr.parkedFacility
      idx == cr.parkedSpotIndex
      exitRight == ExitRight(cr, coin)
      finalX == IF exitRight THEN RoadBounds.maxRoadX + Meters(2)
                ELSE RoadBounds.minRoadX - Meters(2)
      path == GenerateExitPath(fac, modules[fac].spots[idx + 1], exitRight, finalX)
  IN  [ss |-> setSpotState(ss, fac, idx, "RESERVED"),
       cr |-> setState(setPath(cr, path), "EXITING"),
       log |-> << Entry("setSpotState", c, fac, idx, ss[fac][idx], "RESERVED"),
                  Entry("GenerateExitPath", c, fac, idx, "", ""),
                  Entry("setPath", c, fac, idx, "", "") >>]

\* An exit whose path ends at the road's edge instead of beyond it.
ExitParkingAtRoadEdge(ss, c, cr, coin) ==
  LET fac == cr.parkedFacility
      idx == cr.parkedSpotIndex
      exitRight == ExitRight(cr, coin)
      finalX == IF exitRight THEN RoadBounds.maxRoadX ELSE RoadBounds.minRoadX
      path == GenerateExitPath(fac, modules[fac].spots[idx + 1], exitRight, finalX)
  IN  [ss |-> setSpotState(ss, fac, idx, "FREE"),
       cr |-> setState(setPath(cr, path), "EXITING"),
       log |-> << Entry("setSpotState", c, fac, idx, ss[fac][idx], "FREE"),
                  Entry("GenerateExitPath", c, fac, idx, "", ""),
                  Entry("setPath", c, fac, idx, "", "") >>]

\* "Check if ready to leave parking" with shouldExit true and a facility in the
\* context: free the spot, pick the side, take the exit path, go EXITING.
ExitParking(ss, c, cr, coin) ==
  LET fac == cr.parkedFacility
      idx == cr.parkedSpotIndex
      ss1 == IF idx # NoSpot THEN setSpotState(ss, fac, idx, "FREE") ELSE ss
      exitRight == ExitRight(cr, coin)
      finalX == IF exitRight THEN RoadBounds.maxRoadX + Meters(2)
                ELSE RoadBounds.minRoadX - Meters(2)
      spot == IF idx # NoSpot THEN modules[fac].spots[idx + 1] ELSE Spot(0, 0, 0, -1, 0)
      path == GenerateExitPath(fac, spot, exitRight, finalX)
  IN  [ss |-> ss1,
       cr |-> setState(setPath(cr, path), "EXITING"),
       log |-> (IF idx # NoSpot
                THEN <<Entry("setSpotState", c, fac, idx, ss[fac][idx], "FREE")>>
                ELSE <<>>)
               \o << Entry("GenerateExitPath", c, fac, idx, "", ""),
                     Entry("setPath", c, fac, idx, "", "") >>]

\* An iteration whose despawn check reads the arrival the vehicle had before
\* the exit path was assigned.
EvaluateStaleArrival(ss, c, cr, d, amount) ==
  LET ss1 == Promote(ss, cr)
      log1 == IF ss1 # ss
              THEN <<Entry("setSpotState", c, cr.parkedFacility, cr.parkedSpotIndex,
                           "RESERVED", "OCCUPIED")>>
              ELSE <<>>
      pl == ParkedLogic(cr, d.ready, d.band, amount)
  IN  IF pl.shouldExit /\ pl.cr.parkedFacility = NoModule
      THEN [ss |-> ss1, cr |-> setState(pl.cr, "DRIVING"), log |-> log1, remove |-> FALSE]
      ELSE LET x == IF pl.shouldExit THEN ExitParking(ss1, c, pl.cr, d.coin)
                    ELSE [ss |-> ss1, cr |-> pl.cr, log |-> <<>>]
           IN  [ss |-> x.ss, cr |-> x.cr, log |-> log1 \o x.log,
                remove |-> x.cr.state = "EXITING" /\ hasArrived(pl.cr)]

\* An iteration that sends a vehicle without facility out instead of back to
\* DRIVING, and goes on to the despawn check.
EvaluateStrandedExits(ss, c, cr, d, amount) ==
  LET ss1 == Promote(ss, cr)
      log1 == IF ss1 # ss
              THEN <<Entry("setSpotState", c, cr.parkedFacility, cr.parkedSpotIndex,
                           "RESERVED", "OCCUPIED")>>
              ELSE <<>>
      pl == ParkedLogic(cr, d.ready, d.band, amount)
      x == IF pl.shouldExit /\ pl.cr.parkedFacility = NoModule
           THEN [ss |-> ss1, cr |-> setState(pl.cr, "EXITING"), log |-> <<>>]
           ELSE IF pl.shouldExit THEN ExitParking(ss1, c, pl.cr, d.coin)
           ELSE [ss |-> ss1, cr |-> pl.cr, log |-> <<>>]
  IN  [ss |-> x.ss, cr |-> x.cr, log |-> log1 \o x.log,
       remove |-> x.cr.state = "EXITING" /\ hasArrived(x.cr)]

\* An iteration that collects every EXITING vehicle, arrived or not.
EvaluateRemovesExiting(ss, c, cr, d, amount) ==
  LET ss1 == Promote(ss, cr)
      log1 == IF ss1 # ss
              THEN <<Entry("setSpotState", c, cr.parkedFacility, cr.parkedSpotIndex,
                           "RESERVED", "OCCUPIED")>>
              ELSE <<>>
      pl == ParkedLogic(cr, d.ready, d.band, amount)
      x == IF pl.shouldExit THEN ExitParking(ss1, c, pl.cr, d.coin)
           ELSE [ss |-> ss1, cr |-> pl.cr, log |-> <<>>]
  IN  [ss |-> x.ss, cr |-> x.cr, log |-> log1 \o x.log,
       remove |-> x.cr.state = "EXITING"]

\* One iteration of the loop over the live vehicles: what it leaves of the spot
\* states and of the vehicle, what it did, and whether the vehicle is collected
\* for removal.
Evaluate(ss, c, cr, d, amount) ==
  LET ss1 == Promote(ss, cr)
      log1 == IF ss1 # ss
              THEN <<Entry("setSpotState", c, cr.parkedFacility, cr.parkedSpotIndex,
                           "RESERVED", "OCCUPIED")>>
              ELSE <<>>
      pl == ParkedLogic(cr, d.ready, d.band, amount)
  IN  IF pl.shouldExit /\ pl.cr.parkedFacility = NoModule
      THEN [ss |-> ss1, cr |-> setState(pl.cr, "DRIVING"), log |-> log1, remove |-> FALSE]
      ELSE LET x == IF pl.shouldExit THEN ExitParking(ss1, c, pl.cr, d.coin)
                    ELSE [ss |-> ss1, cr |-> pl.cr, log |-> <<>>]
           IN  [ss |-> x.ss, cr |-> x.cr, log |-> log1 \o x.log,
                remove |-> x.cr.state = "EXITING" /\ hasArrived(x.cr)]

\* The draws one vehicle's evaluation may consume: isReadyToLeave() (ready), the
\* draw of the 80..95 band (band), the exit side of a vehicle that is not
\* PRIORITY_DISTANCE (coin). A draw the evaluation cannot reach is left FALSE.
Draws == [ready : BOOLEAN, band : BOOLEAN, coin : BOOLEAN]

DrawsOf(cr, amount) ==
  IF cr.state # "PARKED" THEN {[ready |-> FALSE, band |-> FALSE, coin |-> FALSE]}
  ELSE LET charging == /\ cr.parkedFacility # NoModule
                       /\ IsCharging(cr.parkedFacility)
                       /\ cr.type = "ELECTRIC"
           bat == charge(cr, amount).battery
           readys == IF charging THEN {FALSE} ELSE BOOLEAN
           bands == IF /\ charging
                       /\ bat > BATTERY_EXIT_THRESHOLD
                       /\ bat <= BATTERY_FORCE_EXIT_THRESHOLD
                    THEN BOOLEAN ELSE {FALSE}
       IN  UNION {
             {[ready |-> r, band |-> b, coin |-> x] :
                x \in IF /\ cr.priority # "PRIORITY_DISTANCE"
                         /\ ParkedLogic(cr, r, b, amount).shouldExit
                      THEN BOOLEAN ELSE {FALSE}} :
             r \in readys, b \in bands}

RECURSIVE TickLoopErasing(_, _, _)
\* A loop that takes a vehicle that finished exiting out of the list at once,
\* so that the vehicle after it moves into its place and is passed over.
TickLoopErasing(k, in, acc) ==
  IF k > Len(cars) THEN acc
  ELSE LET c == cars[k]
           r == Evaluate(acc.ss, c, acc.car[c], in.draw[c], in.amount)
       IN  TickLoopErasing(IF r.remove THEN k + 2 ELSE k + 1, in,
                    [ss |-> r.ss,
                     car |-> [acc.car EXCEPT ![c] = r.cr],
                     log |-> acc.log \o r.log,
                     carsToRemove |-> IF r.remove THEN Append(acc.carsToRemove, c)
                                      ELSE acc.carsToRemove])

RECURSIVE TickLoop(_, _, _)
\* The loop over the live vehicles from position k on; acc = [ss, car, log,
\* carsToRemove].
TickLoop(k, in, acc) ==
  IF k > Len(cars) THEN acc
  ELSE LET c == cars[k]
           r == Evaluate(acc.ss, c, acc.car[c], in.draw[c], in.amount)
       IN  TickLoop(k + 1, in,
                    [ss |-> r.ss,
                     car |-> [acc.car EXCEPT ![c] = r.cr],
                     log |-> acc.log \o r.log,
                     carsToRemove |-> IF r.remove THEN Append(acc.carsToRemove, c)
                                      ELSE acc.carsToRemove])

RECURSIVE TickDrawsFrom(_, _)
\* One draw per vehicle id from c on, for a whole tick.
TickDrawsFrom(c, amount) ==
  IF c > MaxCars THEN {<<>>}
  ELSE {<<d>> \o rest : d \in DrawsOf(car[c], amount), rest \in TickDrawsFrom(c + 1, amount)}

\* One draw per vehicle, for a whole tick.
TickDraws(amount) == TickDrawsFrom(1, amount)

\* The GameUpdateEvent handler: the loop, then the removal of the collected
\* vehicles from the live set.
Tick ==
  \E amount \in ChargeAmounts :
  \E draw \in TickDraws(amount) :
    \E r \in {TickLoop(1, [draw |-> draw, amount |-> amount],
                      [ss |-> spotState, car |-> car, log |-> <<>>, carsToRemove |-> <<>>])} :
    LET gone == {r.carsToRemove[k] : k \in 1..Len(r.carsToRemove)}
    IN  /\ spotState' = r.ss
        /\ car' = [c \in CarIds |-> IF c \in gone THEN NoCar ELSE r.car[c]]
        /\ cars' = SelectSeq(cars, LAMBDA c : c \notin gone)
        /\ log' = r.log \o [k \in 1..Len(r.carsToRemove) |->
                              Entry("removeCar", r.carsToRemove[k], NoModule, NoSpot, "", "")]
        /\ UNCHANGED <<map, nextId, created>>

\* ----------------------------------------------------------- specification

Init ==
  /\ map \in MapsOf(GeneratedMaps)
  /\ spotState = [m \in 1..Len(map) |->
                    [i \in 0 .. (Len(map[m].spots) - 1) |-> "FREE"]]
  /\ cars = <<>>
  /\ car = [c \in CarIds |-> NoCar]
  /\ nextId = 0
  /\ created = <<>>
  /\ log = <<>>

Next ==
  \/ SpawnRequest
  \/ CarSpawned
  \/ \E c \in CarIds : CarUpdate(c)
  \/ Tick

Spec == Init /\ [][Next]_vars

\* The vehicle-spawned handler alone, over battery levels on both sides of and
\* at the two thresholds.
MaxSeekCars == 1
WideBatteryLevels == {0, 29, 30, 50, 70, 71, 100}

SeekSpawnRequest == nextId + Len(created) < MaxSeekCars /\ SpawnRequest

SeekCarSpawned == CarSpawnedWith(WideBatteryLevels)

SeekNext ==
  \/ SeekSpawnRequest
  \/ SeekCarSpawned

SeekSpec == Init /\ [][SeekNext]_vars

\* The spawn handlers on every map, those without a boundary road included;
\* the spawn request leaves a mark in the handler log.
RequestInit ==
  /\ map \in MapsOf(Maps) \cup {EmptyMap, RoadlessMap}
  /\ spotState = [m \in 1..Len(map) |->
                    [i \in 0 .. (Len(map[m].spots) - 1) |-> "FREE"]]
  /\ cars = <<>>
  /\ car = [c \in CarIds |-> NoCar]
  /\ nextId = 0
  /\ created = <<>>
  /\ log = <<>>

RequestMark == <<Entry("SpawnCarRequestEvent", 0, NoModule, NoSpot, "", "")>>

MarkedSpawnRequest ==
  nextId + Len(created) < MaxSeekCars /\ SpawnRequestWith(RequestMark)

RequestNext ==
  \/ MarkedSpawnRequest
  \/ SeekCarSpawned

RequestSpec == RequestInit /\ [][RequestNext]_vars

\* The planner alone: called for any vehicle, facility and spot, on the
\* generated maps and on one whose facilities have no parent road; the caller
\* hands the returned path to the vehicle.
PlannerBatteries == BatteryLevels \cup {100}
PlannerVelocities == {-15, 0, 15}
PlannerPositions == {<<0, P2M(LANE_OFFSET_DOWN)>>, <<Meters(50), P2M(LANE_OFFSET_UP)>>}

PlannerVehicles ==
  { [NoCar EXCEPT !.type = t, !.battery = b, !.priority = p, !.enteredFromLeft = l,
                  !.position = pos, !.velocityX = v, !.state = "DRIVING"] :
      t \in CarTypes, b \in PlannerBatteries, p \in Priorities, l \in BOOLEAN,
      pos \in PlannerPositions, v \in PlannerVelocities }

PlannerInit ==
  /\ map \in MapsOf(Maps)
  /\ spotState = [m \in 1..Len(map) |->
                    [i \in 0 .. (Len(map[m].spots) - 1) |-> "FREE"]]
  /\ cars = <<>>
  /\ car = [c \in CarIds |-> NoCar]
  /\ nextId = 0
  /\ created = <<>>
  /\ log = <<>>

\* A vehicle to plan for.
PlannerVehicle ==
  /\ nextId = 0
  /\ \E v \in PlannerVehicles :
       /\ car' = [car EXCEPT ![1] = v]
       /\ cars' = <<1>>
       /\ nextId' = 1
       /\ log' = <<>>
  /\ UNCHANGED <<map, spotState, created>>

\* GeneratePath for the vehicle and any spot of any facility.
PlanEntry ==
  /\ nextId = 1
  /\ \E fac \in {m \in ModuleIds : modules[m].spots # <<>>} :
     \E idx \in SpotIndices(fac) :
       /\ car' = [car EXCEPT ![1] = setPath(@, GeneratePath(@, fac, modules[fac].spots[idx + 1]))]
       /\ log' = <<Entry("GeneratePath", 1, fac, idx, "", "")>>
  /\ UNCHANGED <<map, spotState, cars, nextId, created>>

\* GenerateExitPath for the vehicle from any spot of any facility, to either
\* side.
PlanExit ==
  /\ nextId = 1
  /\ \E fac \in {m \in ModuleIds : modules[m].spots # <<>>} :
     \E idx \in SpotIndices(fac) :
     \E exitRight \in BOOLEAN :
       LET finalX == IF exitRight THEN RoadBounds.maxRoadX + Meters(2)
                     ELSE RoadBounds.minRoadX - Meters(2)
       IN  /\ car' = [car EXCEPT ![1] =
                        setPath(@, GenerateExitPath(fac, modules[fac].spots[idx + 1],
                                                    exitRight, finalX))]
           /\ log' = <<Entry("GenerateExitPath", 1, fac, idx, "",
                             IF exitRight THEN "right" ELSE "left")>>
  /\ UNCHANGED <<map, spotState, cars, nextId, created>>

PlannerNext ==
  \/ PlannerVehicle
  \/ PlanEntry
  \/ PlanExit

PlannerSpec == PlannerInit /\ [][PlannerNext]_vars

\* -------------------------------------------------------------- properties

\* The live vehicles.
Live == {cars[k] : k \in 1..Len(cars)}

\* The facilities of the map, by class, and every spot as <<facility, index>>.
ParkingIds == {m \in ModuleIds : modules[m].kind \in ParkingKinds}
ChargingIds == {m \in ModuleIds : modules[m].kind \in ChargingKinds}
FacilityIds == ParkingIds \cup ChargingIds
AllSpots == UNION {{<<m, i>> : i \in SpotIndices(m)} : m \in FacilityIds}

\* The FREE spots of a facility in the spot states ss.
FreeSpots(ss, m) == {i \in SpotIndices(m) : ss[m][i] = "FREE"}

\* The vehicles of cs that hold spot i of m: their parking context names it and
\* they have not left it.
Holders(cs, m, i) ==
  {c \in CarIds : /\ cs[c].state \in {"DRIVING", "ALIGNING", "PARKED"}
                  /\ cs[c].parkedFacility = m
                  /\ cs[c].parkedSpotIndex = i}

\* The positions of the log l at which a spot is set to state st.
SetTo(l, st) == {k \in 1..Len(l) : l[k].ev = "setSpotState" /\ l[k].to = st}

\* The log l is that of a vehicle-spawned notification.
IsSpawnLog(l) == Len(l) > 0 /\ l[1].ev = "CarSpawnedEvent"

\* The facilities a vehicle-spawned notification with log l chose among: those
\* of the class it looked for, parking when it looked for charging and the map
\* has no charging station.
Candidates(l) ==
  IF l[1].to = "charging" /\ ChargingIds # {} THEN ChargingIds ELSE ParkingIds

\* The road bounds of the map: smallest x and largest x + width of its
\* NormalRoads.
NormalRoads == {m \in ModuleIds : modules[m].kind = "NormalRoad"}
MinRoadX ==
  IF NormalRoads = {} THEN 0
  ELSE LET xs == {modules[m].worldPosition[1] : m \in NormalRoads}
       IN  CHOOSE x \in xs : \A y \in xs : x <= y
MaxRoadX ==
  IF NormalRoads = {} THEN Meters(100)
  ELSE LET xs == {modules[m].worldPosition[1] + ModuleWidth(modules[m].kind) : m \in NormalRoads}
       IN  CHOOSE x \in xs : \A y \in xs : x >= y

\* C1 (part): a spot that is RESERVED or OCCUPIED has exactly one holder, a live
\* vehicle, and a FREE spot has none.
C1OneHolder ==
  \A s \in AllSpots :
    IF spotState[s[1]][s[2]] = "FREE"
    THEN Holders(car, s[1], s[2]) = {}
    ELSE /\ Cardinality(Holders(car, s[1], s[2])) = 1
         /\ Holders(car, s[1], s[2]) \subseteq Live

\* C1 (part): a spot that is RESERVED or OCCUPIED before and after a step is
\* held by the same vehicle.
C1SameHolder ==
  \A s \in AllSpots :
    (spotState[s[1]][s[2]] # "FREE" /\ spotState'[s[1]][s[2]] # "FREE")
      => Holders(car', s[1], s[2]) = Holders(car, s[1], s[2])

\* C1: in every reachable state each RESERVED or OCCUPIED spot is held by
\* exactly one live vehicle, and a spot never passes to a second vehicle
\* without having been FREE in between.
C1_ExclusiveHolder == []C1OneHolder /\ [][C1SameHolder]_vars

\* C1 witness: a spot one vehicle parked at and left is RESERVED for another.
C1_Witness ==
  \E s \in AllSpots : \E c1, c2 \in Live :
    /\ c1 # c2
    /\ spotState[s[1]][s[2]] = "RESERVED"
    /\ Holders(car, s[1], s[2]) = {c2}
    /\ car[c1].state = "EXITING"
    /\ car[c1].parkedFacility = s[1] /\ car[c1].parkedSpotIndex = s[2]

\* The three changes a spot may make.
LegalChanges ==
  {<<"FREE", "RESERVED">>, <<"RESERVED", "OCCUPIED">>, <<"OCCUPIED", "FREE">>}

RECURSIVE Replay(_, _, _)
\* The spot states after the setSpotState calls of log l from position k on,
\* applied to ss; <<>> when a call did not find the state the log says it left.
Replay(l, k, ss) ==
  IF k > Len(l) THEN ss
  ELSE IF l[k].ev # "setSpotState" THEN Replay(l, k + 1, ss)
  ELSE IF ss[l[k].fac][l[k].idx] # l[k].from THEN <<>>
  ELSE Replay(l, k + 1, setSpotState(ss, l[k].fac, l[k].idx, l[k].to))

RECURSIVE Undo(_, _, _)
\* The spot states before the setSpotState calls of log l up to position k,
\* which left ss.
Undo(l, k, ss) ==
  IF k = 0 THEN ss
  ELSE IF l[k].ev # "setSpotState" THEN Undo(l, k - 1, ss)
  ELSE Undo(l, k - 1, setSpotState(ss, l[k].fac, l[k].idx, l[k].from))

\* The spot states the handler that wrote the log started from.
SpotsBefore == Undo(log, Len(log), spotState)

\* C2: every change of a spot's state is FREE->RESERVED, RESERVED->OCCUPIED
\* or OCCUPIED->FREE, call by call within a handler (the calls of a handler
\* account for the whole change of the spot states over its step), including
\* when a vehicle is promoted and released in the same tick.
C2_LegalChanges ==
  /\ [](\A k \in 1..Len(log) :
          log[k].ev = "setSpotState" => <<log[k].from, log[k].to>> \in LegalChanges)
  /\ [][Replay(log', 1, spotState) = spotState' /\ SpotsBefore' = spotState]_vars

\* C2 witness: one tick promotes a spot and then releases it, for the same
\* vehicle.
C2_Witness ==
  \E k \in SetTo(log, "OCCUPIED") : \E j \in SetTo(log, "FREE") :
    /\ k < j
    /\ log[k].car = log[j].car /\ log[k].fac = log[j].fac /\ log[k].idx = log[j].idx

\* C3: the spot the vehicle-spawned handler sets to RESERVED is FREE when the
\* handler starts and at the instant it is set, and is held by the new vehicle
\* alone afterwards; only that handler reserves, and at most one spot.
C3_ReserveOnlyFree ==
  /\ Cardinality(SetTo(log, "RESERVED")) <= 1
  /\ \A k \in SetTo(log, "RESERVED") :
       /\ IsSpawnLog(log) /\ log[k].car = log[1].car
       /\ log[k].from = "FREE"
       /\ SpotsBefore[log[k].fac][log[k].idx] = "FREE"
       /\ Holders(car, log[k].fac, log[k].idx) = {log[k].car}

\* C3 witness: a handler reserved a spot of a facility in which another live
\* vehicle holds a spot.
C3_Witness ==
  \E k \in SetTo(log, "RESERVED") : \E c \in Live : \E i \in SpotIndices(log[k].fac) :
    /\ c # log[k].car
    /\ i # log[k].idx
    /\ c \in Holders(car, log[k].fac, i)
    /\ spotState[log[k].fac][log[k].idx] = "RESERVED"

\* C4 (step): a vehicle that goes from PARKED to EXITING has its spot set to
\* FREE exactly once in that tick, immediately before its exit path is
\* generated; no other step sets a spot to FREE for it.
C4Step ==
  \A c \in CarIds :
    LET rel == {k \in SetTo(log', "FREE") : log'[k].car = c}
        gen == {k \in 1..Len(log') : log'[k].ev = "GenerateExitPath" /\ log'[k].car = c}
    IN  IF car[c].state = "PARKED" /\ car'[c].state = "EXITING"
        THEN /\ Cardinality(rel) = 1
             /\ Cardinality(gen) = 1
             /\ \A k \in rel :
                  /\ log'[k].fac = car[c].parkedFacility
                  /\ log'[k].idx = car[c].parkedSpotIndex
                  /\ k + 1 \in gen
                  /\ spotState'[log'[k].fac][log'[k].idx] = "FREE"
             /\ car'[c].parkedFacility = car[c].parkedFacility
             /\ car'[c].parkedSpotIndex = car[c].parkedSpotIndex
        ELSE rel = {} /\ gen = {}

\* C4: each reservation is released exactly once, at the tick in which its
\* PARKED vehicle decides to exit and before the exit path is generated, and
\* never again for that vehicle while it is EXITING with its parking context.
C4_ReleasedOnce == [][C4Step]_vars

\* C4 witness: a vehicle is EXITING, still has its parking context, and the
\* tick that made it exit released its spot.
C4_Witness ==
  \E c \in Live : \E k \in SetTo(log, "FREE") :
    /\ log[k].car = c
    /\ car[c].state = "EXITING"
    /\ car[c].parkedFacility = log[k].fac /\ car[c].parkedSpotIndex = log[k].idx

\* C5 (part): a second promotion with the vehicle unchanged changes nothing,
\* and one promotion changes at most the spot of the vehicle's context.
C5Idempotent ==
  \A c \in Live :
    LET once == Promote(spotState, car[c])
    IN  /\ Promote(once, car[c]) = once
        /\ \A s \in AllSpots :
             once[s[1]][s[2]] # spotState[s[1]][s[2]]
               => /\ s = <<car[c].parkedFacility, car[c].parkedSpotIndex>>
                  /\ once[s[1]][s[2]] = "OCCUPIED"

\* C5 (part): the holder of an OCCUPIED spot is ALIGNING or PARKED.
C5OwnerArrived ==
  \A s \in AllSpots :
    spotState[s[1]][s[2]] = "OCCUPIED"
      => \A c \in Holders(car, s[1], s[2]) : car[c].state \in {"ALIGNING", "PARKED"}

\* C5: the tick sets a spot to OCCUPIED only when it is RESERVED and the
\* vehicle whose context names it is ALIGNING or PARKED; the promotion is
\* idempotent; no spot is OCCUPIED while its holder is still DRIVING.
C5_Promotion ==
  /\ [](C5Idempotent /\ C5OwnerArrived)
  /\ [][ \A k \in SetTo(log', "OCCUPIED") :
           /\ log'[k].from = "RESERVED"
           /\ spotState[log'[k].fac][log'[k].idx] = "RESERVED"
           /\ car[log'[k].car].state \in {"ALIGNING", "PARKED"}
           /\ car[log'[k].car].parkedFacility = log'[k].fac
           /\ car[log'[k].car].parkedSpotIndex = log'[k].idx ]_vars

\* C5 witness: a tick promoted the spot of a vehicle that is still ALIGNING.
C5_Witness ==
  \E k \in SetTo(log, "OCCUPIED") :
    /\ car[log[k].car].state = "ALIGNING"
    /\ spotState[log[k].fac][log[k].idx] = "OCCUPIED"

\* C6: getRandomSpotIndex returns the sentinel exactly when the facility has
\* no FREE spot and otherwise the index of a FREE spot; its result is a value
\* computed from the spot states, which it leaves as they are.
C6_RandomSpotIndex ==
  \A m \in FacilityIds :
    LET r == getRandomSpotIndex(spotState, m)
    IN  /\ r # {}
        /\ r \subseteq SpotIndices(m) \cup {NoSpot}
        /\ (NoSpot \in r) <=> (FreeSpots(spotState, m) = {})
        /\ FreeSpots(spotState, m) # {} => r \subseteq FreeSpots(spotState, m)

\* C6 witness: after a vehicle-spawned notification one facility is full and
\* another has both a FREE spot and one that is not.
C6_Witness ==
  /\ IsSpawnLog(log)
  /\ \E m \in FacilityIds : FreeSpots(spotState, m) = {}
  /\ \E m \in FacilityIds :
       FreeSpots(spotState, m) # {} /\ FreeSpots(spotState, m) # SpotIndices(m)

\* C7: a vehicle spawned looking for charging while no charging station has a
\* FREE spot, and some parking has one, is assigned a spot of a parking.
C7_BroadensWhenFull ==
  ( /\ IsSpawnLog(log) /\ log[1].to = "charging"
    /\ \A m \in ChargingIds : FreeSpots(SpotsBefore, m) = {}
    /\ \E m \in ParkingIds : FreeSpots(SpotsBefore, m) # {} )
  => /\ car[log[1].car].parkedFacility \in ParkingIds
     /\ car[log[1].car].path # <<>>
     /\ SetTo(log, "RESERVED") # {}

\* C8: every vehicle-spawned notification ends with the vehicle holding a
\* path.
C8_AlwaysAPath ==
  IsSpawnLog(log) => car[log[1].car].path # <<>>

\* C9: a vehicle spawned while every candidate facility is full gets a path
\* whose final waypoint stops at its end beyond the road bounds in the
\* vehicle's direction of travel, is EXITING, and has no spot reserved.
C9_ThroughTraffic ==
  ( /\ IsSpawnLog(log)
    /\ Candidates(log) # {}
    /\ \A m \in Candidates(log) : FreeSpots(SpotsBefore, m) = {} )
  => LET cr == car[log[1].car]
     IN  /\ cr.path # <<>>
         /\ cr.path[Len(cr.path)].stopAtEnd
         /\ cr.path[Len(cr.path)].position[1] =
              IF cr.velocityX > 0 THEN MaxRoadX + Meters(2) ELSE MinRoadX - Meters(2)
         /\ cr.state = "EXITING"
         /\ SetTo(log, "RESERVED") = {}
         /\ spotState = SpotsBefore
         /\ cr.parkedFacility = NoModule
         /\ cr.parkedSpotIndex = NoSpot

\* C9 witness: a vehicle-spawned notification found its only candidates full
\* and the new vehicle is EXITING on a path.
C9_Witness ==
  /\ IsSpawnLog(log)
  /\ Candidates(log) # {}
  /\ \A m \in Candidates(log) : FreeSpots(spotState, m) = {}
  /\ car[log[1].car].state = "EXITING"
  /\ car[log[1].car].path # <<>>

\* C10: a PRIORITY_DISTANCE vehicle spawned while some candidate facility has
\* a FREE spot is sent to the candidate nearest to its spawn position among
\* those with a FREE spot; a nearer full candidate neither is chosen nor keeps
\* it from a farther one.
C10_NearestWithRoom ==
  ( /\ IsSpawnLog(log)
    /\ car[log[1].car].priority = "PRIORITY_DISTANCE" )
  => LET cr == car[log[1].car]
         open == {m \in Candidates(log) : FreeSpots(SpotsBefore, m) # {}}
     IN  open # {}
           => /\ cr.parkedFacility \in open
              /\ \A k \in SetTo(log, "RESERVED") : log[k].fac = cr.parkedFacility
              /\ SetTo(log, "RESERVED") # {}
              /\ \A g \in open :
                   Vector2DistanceSq(cr.position, modules[cr.parkedFacility].worldPosition)
                     <= Vector2DistanceSq(cr.position, modules[g].worldPosition)

\* C10 witness: a PRIORITY_DISTANCE vehicle was sent past a nearer candidate
\* that is full.
C10_Witness ==
  /\ IsSpawnLog(log)
  /\ LET c == log[1].car
     IN  /\ car[c].priority = "PRIORITY_DISTANCE"
         /\ car[c].parkedFacility # NoModule
         /\ SetTo(log, "RESERVED") # {}
         /\ \E g \in Candidates(log) :
              /\ FreeSpots(spotState, g) = {}
              /\ g # car[c].parkedFacility
              /\ Vector2DistanceSq(car[c].position, modules[g].worldPosition)
                   < Vector2DistanceSq(car[c].position,
                                       modules[car[c].parkedFacility].worldPosition)

\* The price of spot i of facility m.
PriceOf(m, i) == modules[m].spots[i + 1].price

\* C11: a PRIORITY_PRICE vehicle spawned while some candidate facility has a
\* FREE spot reserves a spot that was FREE, in a candidate, and no dearer than
\* the dearest FREE spot of any candidate with room (one of which was that
\* candidate's sample); when every FREE spot of one candidate is cheaper than
\* every FREE spot of all the others, it is sent to that candidate, however
\* far away.
C11_CheapestSampled ==
  ( /\ IsSpawnLog(log)
    /\ car[log[1].car].priority = "PRIORITY_PRICE" )
  => LET cr == car[log[1].car]
         open == {m \in Candidates(log) : FreeSpots(SpotsBefore, m) # {}}
     IN  open # {}
           => /\ cr.parkedFacility \in open
              /\ cr.parkedSpotIndex \in FreeSpots(SpotsBefore, cr.parkedFacility)
              /\ spotState[cr.parkedFacility][cr.parkedSpotIndex] = "RESERVED"
              /\ \A g \in open : \E i \in FreeSpots(SpotsBefore, g) :
                   PriceOf(cr.parkedFacility, cr.parkedSpotIndex) <= PriceOf(g, i)
              /\ \A a \in open :
                   ( \A g \in open \ {a} :
                       \A i \in FreeSpots(SpotsBefore, a), j \in FreeSpots(SpotsBefore, g) :
                         PriceOf(a, i) < PriceOf(g, j) )
                   => cr.parkedFacility = a

\* C11 witness: a PRIORITY_PRICE vehicle was sent to the cheaper facility past
\* a nearer candidate that has a FREE spot.
C11_Witness ==
  /\ IsSpawnLog(log)
  /\ LET c == log[1].car
     IN  /\ car[c].priority = "PRIORITY_PRICE"
         /\ car[c].parkedFacility # NoModule
         /\ SetTo(log, "RESERVED") # {}
         /\ \E g \in Candidates(log) \ {car[c].parkedFacility} :
              /\ FreeSpots(spotState, g) # {}
              /\ \A i \in FreeSpots(spotState, g) :
                   PriceOf(g, i) > PriceOf(car[c].parkedFacility, car[c].parkedSpotIndex)
              /\ Vector2DistanceSq(car[c].position, modules[g].worldPosition)
                   < Vector2DistanceSq(car[c].position,
                                       modules[car[c].parkedFacility].worldPosition)

\* C12: an electric vehicle whose battery is strictly below the low threshold
\* always seeks charging (no draw can make it seek parking): the handler looks
\* among the charging stations, and the vehicle is sent to one whenever one has
\* a FREE spot; an electric vehicle whose battery is strictly above the high
\* threshold never seeks charging and is never sent to a charging station.
C12_SeekByBattery ==
  /\ \A b \in 0..100 :
       /\ b < BATTERY_LOW_THRESHOLD => SeekCharging("ELECTRIC", b) = {TRUE}
       /\ b > BATTERY_HIGH_THRESHOLD => SeekCharging("ELECTRIC", b) = {FALSE}
  /\ ( IsSpawnLog(log) /\ car[log[1].car].type = "ELECTRIC" )
     => LET cr == car[log[1].car]
        IN  /\ cr.battery < BATTERY_LOW_THRESHOLD
                 => /\ log[1].to = "charging"
                    /\ FilterFacilities(cr.type, TRUE) = SelectSeq(ModuleSeq, IsCharging)
                    /\ (\E m \in ChargingIds : FreeSpots(SpotsBefore, m) # {})
                         => cr.parkedFacility \in ChargingIds
                    /\ (ChargingIds # {} /\ cr.parkedFacility # NoModule)
                         => cr.parkedFacility \in ChargingIds
            /\ cr.battery > BATTERY_HIGH_THRESHOLD
                 => /\ log[1].to = "parking"
                    /\ cr.parkedFacility \notin ChargingIds

\* C12 witness: on a map whose charging station has a FREE spot, an electric
\* vehicle with a battery above the high threshold was sent to a parking.
C12_Witness ==
  /\ IsSpawnLog(log)
  /\ LET cr == car[log[1].car]
     IN  /\ cr.type = "ELECTRIC"
         /\ cr.battery > BATTERY_HIGH_THRESHOLD
         /\ cr.parkedFacility \in ParkingIds
         /\ \E m \in ChargingIds : FreeSpots(spotState, m) # {}

\* C13 (one step): a vehicle leaves the live set only in a tick that found it
\* EXITING and arrived, and is then gone altogether; a DRIVING, ALIGNING or
\* PARKED vehicle stays live; a tick leaves no vehicle live that it found
\* EXITING and arrived.
C13Step ==
  \A c \in CarIds :
    /\ (c \in Live /\ c \notin Live')
         => /\ car[c].state = "EXITING"
            /\ hasArrived(car[c])
            /\ \E k \in 1..Len(log') : log'[k].ev = "removeCar" /\ log'[k].car = c
            /\ car'[c] = NoCar
    /\ (c \in Live /\ car[c].state \in {"DRIVING", "ALIGNING", "PARKED"})
         => c \in Live'
    /\ (c \in Live /\ car[c].state = "EXITING" /\ hasArrived(car[c]) /\ Tick)
         => c \notin Live'

\* C13: a vehicle is removed only by a tick in which it is EXITING and has
\* arrived, every such vehicle is removed by the end of that tick, and no
\* DRIVING, ALIGNING or PARKED vehicle is ever removed.
C13_RemovedWhenArrived == [][C13Step]_vars

\* C13 witness: a tick has just removed a vehicle.
C13_Witness ==
  \E k \in 1..Len(log) :
    /\ log[k].ev = "removeCar"
    /\ log[k].car \notin Live
    /\ car[log[k].car] = NoCar

\* The place of vehicle c in the order not yet created, DRIVING, ALIGNING,
\* PARKED, EXITING, removed, given the vehicles cs and the ids handed out n.
StateRank(cs, n, c) ==
  CASE cs[c].state = "DRIVING" -> 1
    [] cs[c].state = "ALIGNING" -> 2
    [] cs[c].state = "PARKED" -> 3
    [] cs[c].state = "EXITING" -> 4
    [] OTHER -> IF c <= n THEN 5 ELSE 0

\* Vehicle c is created by this step as through traffic: the vehicle-spawned
\* handler found no spot for it and set it EXITING.
SpawnedAsThroughTraffic(c) ==
  /\ StateRank(car, nextId, c) = 0
  /\ IsSpawnLog(log') /\ log'[1].car = c
  /\ car'[c].parkedFacility = NoModule
  /\ SetTo(log', "RESERVED") = {}

\* The statement as the specification has it (one step): states only move
\* forward, and a vehicle turns EXITING only from PARKED.
C14OriginalStep ==
  \A c \in CarIds :
    /\ StateRank(car', nextId', c) >= StateRank(car, nextId, c)
    /\ (car'[c].state = "EXITING" /\ car[c].state # "EXITING") => car[c].state = "PARKED"

C14Step ==
  \A c \in CarIds :
    LET before == StateRank(car, nextId, c)
        after == StateRank(car', nextId', c)
    IN  \/ after = before
        \/ after = before + 1
        \/ after = 4 /\ SpawnedAsThroughTraffic(c)

ExitDecisions(l) == {k \in 1..Len(l) : l[k].ev = "GenerateExitPath"}

\* The final waypoint of the path of vehicle c.
FinalWaypoint(c) == car[c].path[Len(car[c].path)]

\* C15: the exit path a tick gives a PRIORITY_DISTANCE vehicle ends on the side
\* the vehicle entered from: at minRoadX - 2 m when it entered from the left,
\* at maxRoadX + 2 m when it entered from the right; the side of any other
\* vehicle is one of the two, by the draw.
C15_ExitsWhereEntered ==
  \A k \in ExitDecisions(log) :
    LET c == log[k].car
    IN  /\ car[c].path # <<>>
        /\ IF car[c].priority = "PRIORITY_DISTANCE"
           THEN FinalWaypoint(c).position[1] =
                  IF car[c].enteredFromLeft THEN MinRoadX - Meters(2)
                  ELSE MaxRoadX + Meters(2)
           ELSE FinalWaypoint(c).position[1] \in {MinRoadX - Meters(2), MaxRoadX + Meters(2)}

\* C15 witness: a tick has sent a PRIORITY_DISTANCE vehicle that entered from
\* the right out to the right.
C15_Witness ==
  \E k \in ExitDecisions(log) :
    LET c == log[k].car
    IN  /\ car[c].priority = "PRIORITY_DISTANCE"
        /\ ~ car[c].enteredFromLeft
        /\ car[c].state = "EXITING"
        /\ FinalWaypoint(c).position[1] = MaxRoadX + Meters(2)

\* The exit path the planner returns for the spot in the parking context of
\* vehicle c, to the right or to the left.
ExitPathOf(c, exitRight) ==
  GenerateExitPath(car[c].parkedFacility,
                   modules[car[c].parkedFacility].spots[car[c].parkedSpotIndex + 1],
                   exitRight,
                   IF exitRight THEN MaxRoadX + Meters(2) ELSE MinRoadX - Meters(2))

\* C16: after an exit decision the vehicle's queue is the generated exit path
\* and nothing else; its final waypoint, and only that one, stops at its end,
\* and lies strictly outside [minRoadX, maxRoadX]: beyond maxRoadX when the
\* path leads right, before minRoadX when it leads left.
C16_ExitPathLeavesRoad ==
  \A k \in ExitDecisions(log) :
    LET c == log[k].car
    IN  /\ car[c].state = "EXITING"
        /\ \E exitRight \in BOOLEAN :
             /\ car[c].path = ExitPathOf(c, exitRight)
             /\ IF exitRight THEN FinalWaypoint(c).position[1] > MaxRoadX
                ELSE FinalWaypoint(c).position[1] < MinRoadX
        /\ FinalWaypoint(c).stopAtEnd
        /\ \A j \in 1..(Len(car[c].path) - 1) : ~ car[c].path[j].stopAtEnd
        /\ \E j \in k..Len(log) : log[j].ev = "setPath" /\ log[j].car = c

\* C16 witness: a tick has sent a PARKED vehicle out on a path whose final
\* waypoint lies before minRoadX.
C16_Witness ==
  \E k \in ExitDecisions(log) :
    LET c == log[k].car
    IN  /\ car[c].state = "EXITING"
        /\ car[c].path # <<>>
        /\ FinalWaypoint(c).stopAtEnd
        /\ FinalWaypoint(c).position[1] < MinRoadX

\* The handler log is that of one GeneratePath call.
IsEntryPlan(l) == Len(l) = 1 /\ l[1].ev = "GeneratePath"

\* C17: GeneratePath returns exactly four waypoints, in the order road entry,
\* facility entry, alignment point, spot point; only the last stops at its end
\* and its tolerance is strictly smaller than that of each of the first three;
\* for a facility without a parent road the path still has four waypoints and
\* the first is the facility's own entry point.
C17_FourWaypoints ==
  IsEntryPlan(log)
  => LET path == car[log[1].car].path
         fac == log[1].fac
         spot == modules[fac].spots[log[1].idx + 1]
         side == modules[fac].isTop
         road == modules[fac].parent
     IN  /\ Len(path) = 4
         /\ \A j \in 1..3 : ~ path[j].stopAtEnd /\ path[4].tolerance < path[j].tolerance
         /\ path[4].stopAtEnd
         /\ path[2] = CalculateFacilityEntry(fac, side)
         /\ path[3] = CalculateAlignmentPoint(fac, spot)
         /\ path[4] = CalculateSpotPoint(fac, spot)
         /\ path[4].position = Vector2Add(modules[fac].worldPosition, spot.localPosition)
         /\ IF road = NoModule
            THEN path[1] = CalculateFacilityEntry(fac, side)
            ELSE /\ path[1] \in {CalculateRoadEntry(road, lane, side) : lane \in {"DOWN", "UP"}}
                 /\ path[1].position[1] >= modules[road].worldPosition[1]
                 /\ path[1].position[1] <= modules[road].worldPosition[1]
                                             + ModuleWidth(modules[road].kind)

\* C17 witness: a path was generated to a facility that has no parent road.
C17_Witness ==
  /\ IsEntryPlan(log)
  /\ modules[log[1].fac].parent = NoModule
  /\ Len(car[log[1].car].path) = 4

\* The lane a path's road entry lies in, read off its offset from the road,
\* and the side a path's facility entry lies on, read off its offset from the
\* facility's entry point.
LaneOfPath(path, road) ==
  IF path[1].position[2] - modules[road].worldPosition[2] = P2M(LANE_OFFSET_DOWN)
  THEN "DOWN" ELSE "UP"
SideOfPath(path, fac) ==
  path[2].position[1]
    - (modules[fac].worldPosition[1] + LocalWaypoint(modules[fac].kind)[1]) > 0

\* C18: the lane of a generated path follows from the sign of the vehicle's x
\* velocity alone (positive: DOWN, otherwise: UP) and the side from the
\* facility's top/bottom flag alone (top: right-hand offset, bottom: left-hand
\* offset): any vehicle with the same heading sign gets the very same path to
\* the same spot, whatever its type, priority, battery, entry side and
\* position, and any facility with the same flag gets the same side; the lane
\* takes exactly two values.
C18_LaneAndSide ==
  IsEntryPlan(log)
  => LET v == car[log[1].car]
         fac == log[1].fac
         spot == modules[fac].spots[log[1].idx + 1]
         road == modules[fac].parent
     IN  /\ road # NoModule
              => LaneOfPath(v.path, road) = IF v.velocityX > 0 THEN "DOWN" ELSE "UP"
         /\ SideOfPath(v.path, fac) = modules[fac].isTop
         /\ \A w \in PlannerVehicles :
              ((w.velocityX > 0) = (v.velocityX > 0))
                => /\ PlannerLane(w) = PlannerLane(v)
                   /\ GeneratePath(w, fac, spot) = v.path
         /\ \A w \in PlannerVehicles :
            \A g \in {m \in ModuleIds : modules[m].spots # <<>>} :
              (modules[g].isTop = modules[fac].isTop)
                => /\ PlannerUseRightSide(g) = PlannerUseRightSide(fac)
                   /\ \A i \in SpotIndices(g) :
                        SideOfPath(GeneratePath(w, g, modules[g].spots[i + 1]), g)
                          = SideOfPath(v.path, fac)
         /\ {PlannerLane(w) : w \in PlannerVehicles} = {"DOWN", "UP"}

\* C18 witness: a path was generated for a vehicle with no x velocity to a
\* facility below its road: lane UP, left-hand side.
C18_Witness ==
  /\ IsEntryPlan(log)
  /\ car[log[1].car].velocityX = 0
  /\ ~ modules[log[1].fac].isTop
  /\ modules[log[1].fac].parent # NoModule
  /\ LaneOfPath(car[log[1].car].path, modules[log[1].fac].parent) = "UP"
  /\ ~ SideOfPath(car[log[1].car].path, log[1].fac)

\* The positions of the log l at which the planner is called.
PlannerCalls(l) == {k \in 1..Len(l) : l[k].ev \in {"GeneratePath", "GenerateExitPath"}}

\* C19 (one step): over a handler that calls the planner the map is the same,
\* the spot states change by the handler's own setSpotState calls and nothing
\* else, and the vehicle planned for differs from what it was only in what
\* the handler itself sets: at an entry the parking context and the path of
\* the vehicle as created, at an exit the path, the state and the battery the
\* tick charged; a vehicle-spawned handler leaves every other vehicle alone.
C19Step ==
  \A k \in PlannerCalls(log') :
    LET c == log'[k].car
        fac == log'[k].fac
        idx == log'[k].idx
    IN  /\ map' = map
        /\ spotState' = Replay(log', 1, spotState)
        /\ IF log'[k].ev = "GeneratePath"
           THEN /\ created # <<>>
                /\ LET new == NewCar(Head(created), car'[c].battery)
                   IN  car'[c] = [new EXCEPT
                                    !.parkedFacility = fac,
                                    !.parkedSpotIndex = idx,
                                    !.path = GeneratePath(new, fac, modules[fac].spots[idx + 1])]
                /\ \A d \in CarIds \ {c} : car'[d] = car[d]
           ELSE /\ car[c].state = "PARKED"
                /\ car'[c] = [car[c] EXCEPT !.path = car'[c].path,
                                             !.arrived = FALSE,
                                             !.state = "EXITING",
                                             !.battery = car'[c].battery]
                /\ car[c].parkedFacility = fac /\ car[c].parkedSpotIndex = idx
                /\ \E exitRight \in BOOLEAN : car'[c].path = ExitPathOf(c, exitRight)

\* C19: a planner call, for an entry path or an exit path, changes no spot
\* state, no field of a module and no field of a vehicle; what changes in the
\* step is what the orchestrator does around the call.
C19_PlannerIsPure == [][C19Step]_vars

\* C19 witness: a handler called the planner for a new vehicle, which holds
\* the four-waypoint path while its spot went from FREE to RESERVED and no
\* further.
C19_Witness ==
  \E k \in PlannerCalls(log) :
    /\ log[k].ev = "GeneratePath"
    /\ Len(car[log[k].car].path) = 4
    /\ car[log[k].car].state = "DRIVING"
    /\ spotState[log[k].fac][log[k].idx] = "RESERVED"
    /\ SpotsBefore[log[k].fac][log[k].idx] = "FREE"

\* Vehicle c is an electric vehicle whose parking context is a charging
\* station.
ChargingStay(c) ==
  /\ car[c].type = "ELECTRIC"
  /\ car[c].parkedFacility # NoModule
  /\ IsCharging(car[c].parkedFacility)

\* C20: for a PARKED electric vehicle at a charging station the tick's exit
\* decision is the same whether or not the dwell timer is ready, and follows
\* the battery after charging (above the force-exit threshold: exit; above the
\* exit threshold: by the draw; otherwise: stay); for every other PARKED
\* vehicle the decision is the dwell timer's readiness, whatever the charge
\* amount and the draw of the band, and the tick leaves its battery as it was.
C20_ExitLogicByPlace ==
  \A c \in Live :
    car[c].state = "PARKED"
    => \A d \in Draws, amount \in ChargeAmounts :
         LET pl == ParkedLogic(car[c], d.ready, d.band, amount)
             ev == Evaluate(spotState, c, car[c], d, amount)
         IN  IF ChargingStay(c)
             THEN /\ pl = ParkedLogic(car[c], ~ d.ready, d.band, amount)
                  /\ pl.shouldExit =
                       ( \/ pl.cr.battery > BATTERY_FORCE_EXIT_THRESHOLD
                         \/ pl.cr.battery > BATTERY_EXIT_THRESHOLD /\ d.band )
                  /\ (ev.cr.state = "EXITING") = pl.shouldExit
             ELSE /\ pl = ParkedLogic(car[c], d.ready, ~ d.band, amount)
                  /\ pl.shouldExit = d.ready
                  /\ (ev.cr.state = "EXITING") = d.ready
                  /\ ev.cr.battery = car[c].battery

\* C20 witness: a tick has sent an electric vehicle out of a charging station,
\* charged beyond the force-exit threshold, while a vehicle parked elsewhere
\* stays PARKED.
C20_Witness ==
  /\ \E k \in ExitDecisions(log) :
       /\ ChargingStay(log[k].car)
       /\ car[log[k].car].battery > BATTERY_FORCE_EXIT_THRESHOLD
       /\ car[log[k].car].state = "EXITING"
  /\ \E c \in Live : car[c].state = "PARKED" /\ ~ ChargingStay(c)

\* The battery level of vehicle c after amount is added, capped at 100.
Charged(c, amount) ==
  IF car[c].battery + amount > 100 THEN 100 ELSE car[c].battery + amount

\* C21: in a tick a PARKED electric vehicle at a charging station first gains
\* the charge amount; with the resulting level above the force-exit threshold
\* it exits in that tick whatever the draws, with it at or below the exit
\* threshold it stays PARKED whatever the draws, and with it in between some
\* draw makes it exit and some draw makes it stay. The amounts tried include
\* those that bring a reachable vehicle exactly to the two thresholds.
C21_ChargeThenDecide ==
  \A c \in Live :
    (car[c].state = "PARKED" /\ ChargingStay(c))
    => \A amount \in ChargeAmounts \cup {0, 20, 30, 35, 45} :
         LET bat == Charged(c, amount)
             outcomes == {Evaluate(spotState, c, car[c], d, amount).cr : d \in Draws}
         IN  /\ \A o \in outcomes : o.battery = bat /\ o.state \in {"PARKED", "EXITING"}
             /\ bat > BATTERY_FORCE_EXIT_THRESHOLD
                  => \A o \in outcomes : o.state = "EXITING"
             /\ bat <= BATTERY_EXIT_THRESHOLD
                  => \A o \in outcomes : o.state = "PARKED"
             /\ (bat > BATTERY_EXIT_THRESHOLD /\ bat <= BATTERY_FORCE_EXIT_THRESHOLD)
                  => /\ \E o \in outcomes : o.state = "EXITING"
                     /\ \E o \in outcomes : o.state = "PARKED"

\* C21 witness: a tick has charged an electric vehicle at a charging station
\* into the band between the two thresholds and sent it out.
C21_Witness ==
  \E k \in ExitDecisions(log) :
    /\ ChargingStay(log[k].car)
    /\ car[log[k].car].battery > BATTERY_EXIT_THRESHOLD
    /\ car[log[k].car].battery <= BATTERY_FORCE_EXIT_THRESHOLD
    /\ car[log[k].car].state = "EXITING"

\* The map has a boundary road: a module that is a NormalRoad.
HasBoundaryRoad == \E m \in ModuleIds : modules[m].kind = "NormalRoad"

\* C22 (state): on a map with no module or no boundary road no CreateCarEvent
\* is ever pending, no vehicle exists and every spot is as it started; right
\* after a spawn request on a map with a boundary road a CreateCarEvent is
\* pending.
C22Served ==
  /\ ~ HasBoundaryRoad
       => /\ created = <<>>
          /\ cars = <<>>
          /\ nextId = 0
          /\ car = [c \in CarIds |-> NoCar]
          /\ \A s \in AllSpots : spotState[s[1]][s[2]] = "FREE"
  /\ (log = RequestMark /\ HasBoundaryRoad) => created # <<>>

\* C22 (one step): a spawn request changes no vehicle and no spot state, and
\* adds exactly one CreateCarEvent to those pending when the map has a
\* boundary road, none otherwise.
C22Step ==
  MarkedSpawnRequest
  => /\ UNCHANGED <<map, spotState, cars, car, nextId>>
     /\ IF HasBoundaryRoad
        THEN /\ Len(created') = Len(created) + 1
             /\ SubSeq(created', 1, Len(created)) = created
        ELSE created' = created

\* C22: a spawn request handled on a map with no modules or no boundary road
\* produces no CreateCarEvent and changes no vehicle or spot state; handled on
\* a map with a boundary road it produces exactly one CreateCarEvent.
C22_SpawnSkippedWithoutRoad == []C22Served /\ [][C22Step]_vars

\* C22 witness: a spawn request has been handled on a map that has modules but
\* no boundary road, and nothing is pending.
C22_Witness ==
  /\ log = RequestMark
  /\ modules # <<>>
  /\ ~ HasBoundaryRoad
  /\ created = <<>>

C27Step ==
  \A s \in AllSpots : \A c \in Holders(car, s[1], s[2]) :
    ( /\ spotState[s[1]][s[2]] # "FREE"
      /\ ~ (car[c].state = "PARKED" /\ \E k \in ExitDecisions(log') : log'[k].car = c) )
    => /\ spotState'[s[1]][s[2]] # "FREE"
       /\ Holders(car', s[1], s[2]) = {c}
       /\ \A k \in SetTo(log', "FREE") \cup SetTo(log', "RESERVED") :
            <<log'[k].fac, log'[k].idx>> # s

\* C27: a reservation is never cancelled or revoked: from the step that
\* reserves a spot for a vehicle until that vehicle, PARKED, decides to exit, no
\* notification of a new vehicle and no tick sets the spot FREE or hands it to
\* another vehicle.
C27_NeverRevoked == [][C27Step]_vars

\* A vehicle PARKED at its spot, which a tick made OCCUPIED since it was
\* reserved, still holds it after the notification of a later vehicle, for
\* which the handler reserved another spot of the same facility.
C27_Witness ==
  \E c, c2 \in Live : \E k \in SetTo(log, "RESERVED") :
    /\ c # c2
    /\ IsSpawnLog(log) /\ log[k].car = c2
    /\ car[c].state = "PARKED"
    /\ car[c].parkedFacility = log[k].fac /\ car[c].parkedSpotIndex # log[k].idx
    /\ spotState[car[c].parkedFacility][car[c].parkedSpotIndex] = "OCCUPIED"
    /\ Holders(car, car[c].parkedFacility, car[c].parkedSpotIndex) = {c}

\* The spots whose state a step changes.
ChangedSpots == {s \in AllSpots : spotState'[s[1]][s[2]] # spotState[s[1]][s[2]]}

\* C28 (step): the modules (kind, place, size, parent, waypoints) and the
\* position, orientation, id and price of every spot are the same after the
\* step, and so is the set of spots that have a state; a step that handles the
\* notification of a new vehicle changes the state of at most one spot, from
\* FREE to RESERVED.
C28Step ==
  /\ map' = map
  /\ DOMAIN spotState' = DOMAIN spotState
  /\ \A m \in DOMAIN spotState : DOMAIN spotState'[m] = DOMAIN spotState[m]
  /\ IsSpawnLog(log')
       => /\ Cardinality(ChangedSpots) <= 1
          /\ \A s \in ChangedSpots :
               /\ spotState[s[1]][s[2]] = "FREE"
               /\ spotState'[s[1]][s[2]] = "RESERVED"

\* C28: every handler leaves the geometry of the modules and the data of the
\* spots unchanged and changes spot states only; handling the notification of
\* a new vehicle changes at most one spot, FREE to RESERVED.
C28_OnlySpotStates == [][C28Step]_vars

\* The notification of a new vehicle reserved one spot of a facility that had
\* a second FREE spot, which is still FREE.
C28_Witness ==
  \E k \in SetTo(log, "RESERVED") : \E i \in FreeSpots(spotState, log[k].fac) :
    /\ IsSpawnLog(log)
    /\ i # log[k].idx
    /\ SpotsBefore[log[k].fac][i] = "FREE"
    /\ SpotsBefore[log[k].fac][log[k].idx] = "FREE"

\* The NormalRoads whose left edge is the smallest x of the map, and those
\* whose right edge is the largest.
LeftmostRoads == {m \in NormalRoads : modules[m].worldPosition[1] = MinRoadX}
RightmostRoads ==
  {m \in NormalRoads : modules[m].worldPosition[1] + ModuleWidth(modules[m].kind) = MaxRoadX}

\* C30: every CreateCarEvent published is consistent. One that entered from
\* the left is placed at the left edge of a leftmost road, on the DOWN lane,
\* with a positive x velocity; any other is placed at the right edge of a
\* rightmost road, on the UP lane, with a negative x velocity. So the entry
\* side is the left exactly when the x velocity is positive.
C30_ConsistentCreateEvent ==
  \A k \in 1..Len(created) :
    LET e == created[k]
    IN  /\ e.enteredFromLeft <=> e.spawnVelX > 0
        /\ e.spawnVelX # 0
        /\ IF e.enteredFromLeft
           THEN \E m \in LeftmostRoads :
                  e.spawnPos = <<MinRoadX, modules[m].worldPosition[2] + P2M(LANE_OFFSET_DOWN)>>
           ELSE \E m \in RightmostRoads :
                  e.spawnPos = <<MaxRoadX, modules[m].worldPosition[2] + P2M(LANE_OFFSET_UP)>>

\* A CreateCarEvent for the right side is pending on a map whose leftmost and
\* rightmost roads differ.
C30_Witness ==
  \E k \in 1..Len(created) :
    /\ ~ created[k].enteredFromLeft
    /\ created[k].spawnPos[1] = MaxRoadX
    /\ LeftmostRoads \cap RightmostRoads = {}

\* ------------------------------------------- Car.cpp: the vehicle's own update

\* The game loop's rate: a regular frame lasts 1 / UpdatesPerSecond seconds.
UpdatesPerSecond == 60

\* The frames one run delivers.
MaxUpdates == 45

\* A long frame (2 s), in frames of the regular rate; the first frame after the
\* scene is loaded may be one.
LongFrame == 120

\* Lengths, speeds and forces are counted in sixtieths of a unit.
Fixed(u) == u * UpdatesPerSecond

\* float division, rounding toward zero.
Quot(a, b) == IF a >= 0 THEN a \div b ELSE -((-a) \div b)

AbsVal(a) == IF a < 0 THEN -a ELSE a
MaxOf(a, b) == IF a > b THEN a ELSE b

RECURSIVE SqrtDown(_, _)
\* Newton's iteration down to the integer square root of n.
SqrtDown(n, x) ==
  LET y == (x + n \div x) \div 2
  IN  IF y >= x THEN x ELSE SqrtDown(n, y)

\* sqrtf, rounded down and rounded up.
FloorSqrt(n) == IF n < 2 THEN n ELSE SqrtDown(n, n)
CeilSqrt(n) == LET f == FloorSqrt(n) IN IF f * f = n THEN f ELSE f + 1

Vector2Subtract(a, b) == <<a[1] - b[1], a[2] - b[2]>>

\* Vector2Length of a vector short enough for its squares.
Vector2Length(v) == FloorSqrt(v[1] * v[1] + v[2] * v[2])

RECURSIVE Sized(_)
\* The vector brought to a size at which its length is computed to better
\* than a thousandth, direction kept.
Sized(v) ==
  LET big == MaxOf(AbsVal(v[1]), AbsVal(v[2]))
  IN  IF big = 0 THEN v
      ELSE IF big > 20000 THEN Sized(<<Quot(v[1], 2), Quot(v[2], 2)>>)
      ELSE IF big < 2000 THEN Sized(<<v[1] * 8, v[2] * 8>>)
      ELSE v

\* Vector2Scale(Vector2Normalize(v), mag); the zero vector stays zero.
ScaleTo(v, mag) ==
  LET u == Sized(v)
      len == CeilSqrt(u[1] * u[1] + u[2] * u[2])
  IN  IF len = 0 THEN <<0, 0>>
      ELSE <<Quot(u[1] * mag, len), Quot(u[2] * mag, len)>>

RECURSIVE LongerThan(_, _)
\* Vector2Length(v) > r
LongerThan(v, r) ==
  LET x == AbsVal(v[1])
      y == AbsVal(v[2])
  IN  IF MaxOf(x, y) > r THEN TRUE
      ELSE IF x + y <= r THEN FALSE
      ELSE IF r <= 30000 THEN x * x + y * y > r * r
      ELSE LongerThan(<<x \div 2, y \div 2>>, r \div 2)

\* Vector2Distance(a, b) < r, for r up to the detection range.
Within(a, b, r) ==
  LET d == Vector2Subtract(a, b)
  IN  /\ MaxOf(AbsVal(d[1]), AbsVal(d[2])) < r
      /\ d[1] * d[1] + d[2] * d[2] < r * r

\* World(width, height), and the null world pointer.
World(width, height) == <<width, height>>
NoWorld == <<>>

\* A point of the queue together with the tolerance of the Waypoint it stands
\* for (1.0f when it is a bare point); the queue keeps the point, and the
\* update reads nothing else.
QueuedWaypoint(point, tol) == [position |-> point, tolerance |-> tol]
PointWaypoint(point) == QueuedWaypoint(point, Fixed(1))

\* Car::Car(startPos, world)
WanderingCar(startPos, world) ==
  [position |-> startPos, velocity |-> <<0, 0>>, acceleration |-> <<0, 0>>,
   world |-> world, maxSpeed |-> Fixed(300), maxForce |-> Fixed(800),
   waypoints |-> <<>>, parkedFacility |-> NoModule, updates |-> 0]

\* One call the update made: the vehicle as it was at the call, the waypoint
\* the call is about, the frame's dt.
CarEntry(ev, c, cr, wp, dt) == [ev |-> ev, car |-> c, cr |-> cr, wp |-> wp, dt |-> dt]

\* Car::addWaypoint
addWaypoint(cr, wp) == [cr EXCEPT !.waypoints = Append(@, wp)]

\* Car::applyForce
applyForce(cr, force) == [cr EXCEPT !.acceleration = Vector2Add(@, force)]

\* A seek that steers away from the target.
seekAway(cr, target) ==
  LET desired == ScaleTo(Vector2Subtract(cr.position, target), cr.maxSpeed)
      steer == Vector2Subtract(desired, cr.velocity)
  IN  applyForce(cr, IF LongerThan(steer, cr.maxForce)
                     THEN ScaleTo(steer, cr.maxForce) ELSE steer)

\* Car::seek
seek(cr, target) ==
  LET desired == ScaleTo(Vector2Subtract(target, cr.position), cr.maxSpeed)
      steer == Vector2Subtract(desired, cr.velocity)
  IN  applyForce(cr, IF LongerThan(steer, cr.maxForce)
                     THEN ScaleTo(steer, cr.maxForce) ELSE steer)

\* The outcomes of GetRandomValue(300, 500) and GetRandomValue(0, 360) tried.
FillerDraws == [dist : {300, 500}, angle : {0, 90, 180, 270}]

\* "Generate a new random waypoint if none exist"
Wander(cr, draw) ==
  IF cr.waypoints = <<>> /\ cr.world # NoWorld
  THEN LET offset == <<CosDeg(draw.angle) * Fixed(draw.dist),
                       SinDeg(draw.angle) * Fixed(draw.dist)>>
           nextPoint == Vector2Add(cr.position, offset)
           x1 == IF nextPoint[1] < Fixed(50) THEN Fixed(50) ELSE nextPoint[1]
           y1 == IF nextPoint[2] < Fixed(50) THEN Fixed(50) ELSE nextPoint[2]
           x2 == IF x1 > Fixed(cr.world[1] - 50) THEN Fixed(cr.world[1] - 50) ELSE x1
           y2 == IF y1 > Fixed(cr.world[2] - 50) THEN Fixed(cr.world[2] - 50) ELSE y1
       IN  addWaypoint(cr, PointWaypoint(<<x2, y2>>))
  ELSE cr

\* "Steering Behavior (Seek)": seek the front waypoint and pop it when the
\* vehicle is closer than 50 to it; without a waypoint, drag.
Steer(cr) ==
  IF cr.waypoints # <<>>
  THEN LET target == Head(cr.waypoints).position
           sought == seek(cr, target)
       IN  IF Within(cr.position, target, Fixed(50))
           THEN [sought EXCEPT !.waypoints = Tail(@)]
           ELSE sought
  ELSE [cr EXCEPT !.velocity = <<Quot(@[1] * 95, 100), Quot(@[2] * 95, 100)>>]

\* The braking force and the separation force one neighbour within 70 adds.
AvoidOne(cr, otherPosition) ==
  IF Within(cr.position, otherPosition, Fixed(70))
  THEN LET away == Vector2Subtract(cr.position, otherPosition)
           dist == Vector2Length(away)
           braked == IF LongerThan(cr.velocity, Fixed(10))
                     THEN applyForce(cr, ScaleTo(cr.velocity, -Fixed(600)))
                     ELSE cr
           pushStrength == Quot(Fixed(500) * (Fixed(70) - dist), Fixed(70))
       IN  applyForce(braked, ScaleTo(away, pushStrength))
  ELSE cr

RECURSIVE Avoid(_, _, _, _, _)
\* "Collision Avoidance (Braking and Separation)": the loop over the vehicles
\* vs of the scene, from position k on, for vehicle c.
Avoid(cr, cs, vs, c, k) ==
  IF k > Len(vs) THEN cr
  ELSE IF vs[k] = c THEN Avoid(cr, cs, vs, c, k + 1)
  ELSE Avoid(AvoidOne(cr, cs[vs[k]].position), cs, vs, c, k + 1)

\* An integration that does not limit the velocity.
IntegrateUnlimited(cr, dt) ==
  LET v == Vector2Add(cr.velocity, <<Quot(cr.acceleration[1] * dt, UpdatesPerSecond),
                                     Quot(cr.acceleration[2] * dt, UpdatesPerSecond)>>)
  IN  [cr EXCEPT !.velocity = v,
                 !.position = Vector2Add(@, <<Quot(v[1] * dt, UpdatesPerSecond),
                                              Quot(v[2] * dt, UpdatesPerSecond)>>),
                 !.acceleration = <<0, 0>>]

\* "Physics Integration": velocity += acceleration * dt, limited to maxSpeed;
\* position += velocity * dt; acceleration reset. dt in regular frames.
Integrate(cr, dt) ==
  LET v1 == Vector2Add(cr.velocity, <<Quot(cr.acceleration[1] * dt, UpdatesPerSecond),
                                      Quot(cr.acceleration[2] * dt, UpdatesPerSecond)>>)
      v == IF LongerThan(v1, cr.maxSpeed) THEN ScaleTo(v1, cr.maxSpeed) ELSE v1
  IN  [cr EXCEPT !.velocity = v,
                 !.position = Vector2Add(@, <<Quot(v[1] * dt, UpdatesPerSecond),
                                              Quot(v[2] * dt, UpdatesPerSecond)>>),
                 !.acceleration = <<0, 0>>]

\* Car::updateWithNeighbors(dt, &cars) of vehicle c among the vehicles vs with
\* fields cs: the vehicle it leaves and the calls it made.
updateWithNeighbors(cs, vs, c, dt, draw) ==
  LET cr == cs[c]
      wandered == Wander(cr, draw)
      steered == Steer(wandered)
      avoided == Avoid(steered, cs, vs, c, 1)
      moved == Integrate(avoided, dt)
  IN  [cr |-> [moved EXCEPT !.updates = @ + 1],
       log |-> (IF wandered # cr
                THEN <<CarEntry("addWaypoint", c, cr, Head(wandered.waypoints), dt)>>
                ELSE <<>>)
               \o (IF wandered.waypoints # <<>>
                   THEN <<CarEntry("seek", c, wandered, Head(wandered.waypoints), dt)>>
                   ELSE <<>>)
               \o (IF Len(steered.waypoints) < Len(wandered.waypoints)
                   THEN <<CarEntry("pop_front", c, wandered, Head(wandered.waypoints), dt)>>
                   ELSE <<>>)
               \o <<CarEntry("integrate", c, avoided, PointWaypoint(<<0, 0>>), dt)>>]

RECURSIVE UpdateLoop(_, _, _, _, _, _)
\* GameScene::update: "for (auto &car : cars) car->updateWithNeighbors(dt, &cars)"
UpdateLoop(k, cs, vs, dt, draws, acc) ==
  IF k > Len(vs) THEN [car |-> cs, log |-> acc]
  ELSE LET r == updateWithNeighbors(cs, vs, vs[k], dt, draws[vs[k]])
       IN  UpdateLoop(k + 1, [cs EXCEPT ![vs[k]] = r.cr], vs, dt, draws, acc \o r.log)

\* The draws the update of a vehicle can consume.
DrawsFor(cr) ==
  IF cr.waypoints = <<>> /\ cr.world # NoWorld THEN FillerDraws
  ELSE {[dist |-> 300, angle |-> 0]}

\* One frame of the scene.
SceneUpdate ==
  /\ \A k \in 1..Len(cars) : car[cars[k]].updates < MaxUpdates
  /\ \E dt \in (IF \A k \in 1..Len(cars) : car[cars[k]].updates = 0
                THEN {1, LongFrame} ELSE {1}) :
     \E draws \in [{cars[k] : k \in 1..Len(cars)} ->
                     UNION {DrawsFor(car[cars[k]]) : k \in 1..Len(cars)}] :
       /\ \A k \in 1..Len(cars) : draws[cars[k]] \in DrawsFor(car[cars[k]])
       /\ \E r \in {UpdateLoop(1, car, cars, dt, draws, <<>>)} :
            /\ car' = r.car
            /\ log' = r.log
  /\ UNCHANGED <<map, spotState, cars, nextId, created>>

\* The world of the scene.
SceneWorld == World(3000, 3000)

\* The vehicles a run starts with. A wandering vehicle is as constructed; a
\* vehicle with a destination has a parking context and the points of its path
\* in its queue, each with the tolerance of its waypoint (2.5 and 0.2 for the
\* path to a spot).
Wanderer(x, y, world) == WanderingCar(<<Fixed(x), Fixed(y)>>, world)

Assigned(cr, fac, path) == [cr EXCEPT !.parkedFacility = fac, !.waypoints = path]

PathToSpot ==
  << QueuedWaypoint(<<Fixed(1540), Fixed(1500)>>, Fixed(5) \div 2),
     QueuedWaypoint(<<Fixed(1540), Fixed(1540)>>, Fixed(1) \div 5) >>

StraightAhead == <<QueuedWaypoint(<<Fixed(1600), Fixed(1500)>>, Fixed(1))>>

SceneStarts ==
  { <<Wanderer(150, 1500, SceneWorld)>>,
    <<Wanderer(1500, 1500, NoWorld)>>,
    <<Assigned(Wanderer(1500, 1500, SceneWorld), 1, PathToSpot)>>,
    <<Assigned(Wanderer(1500, 1500, SceneWorld), NoModule, StraightAhead)>>,
    <<[Assigned(Wanderer(1500, 1500, SceneWorld), NoModule, StraightAhead)
         EXCEPT !.maxForce = Fixed(300 * UpdatesPerSecond)]>>,
    <<Wanderer(1500, 1500, SceneWorld), Wanderer(1530, 1500, SceneWorld)>>,
    <<Assigned(Wanderer(1500, 1500, SceneWorld), 1, PathToSpot),
      Wanderer(1500, 1460, SceneWorld)>> }

SceneInit ==
  /\ map = EmptyMap
  /\ spotState = <<>>
  /\ \E start \in SceneStarts :
       /\ cars = [k \in 1..Len(start) |-> k]
       /\ car = [c \in CarIds |-> IF c <= Len(start) THEN start[c] ELSE NoCar]
  /\ nextId = 0
  /\ created = <<>>
  /\ log = <<>>

SceneNext == SceneUpdate

SceneSpec == SceneInit /\ [][SceneNext]_vars

\* The calls of kind ev in the log of the latest frame.
CarCalls(ev) == {k \in 1..Len(log) : log[k].ev = ev}

\* C23: the update seeks and pops the front waypoint of the queue only, and
\* pops it only when the vehicle's distance to it is within that waypoint's
\* own tolerance.
C23_FrontWithinOwnTolerance ==
  \A k \in CarCalls("seek") \cup CarCalls("pop_front") :
    /\ log[k].wp = Head(log[k].cr.waypoints)
    /\ log[k].ev = "pop_front"
         => Within(log[k].cr.position, log[k].wp.position, log[k].wp.tolerance + 1)

\* C24: the update adds a filler waypoint only when the queue is empty and the
\* vehicle has no destination assigned (no parking context), and the filler
\* lies within the world.
C24_FillerOnlyWithoutDestination ==
  \A k \in CarCalls("addWaypoint") :
    /\ log[k].cr.waypoints = <<>>
    /\ log[k].cr.parkedFacility = NoModule
    /\ log[k].wp.position[1] >= 0 /\ log[k].wp.position[1] <= Fixed(log[k].cr.world[1])
    /\ log[k].wp.position[2] >= 0 /\ log[k].wp.position[2] <= Fixed(log[k].cr.world[2])

\* C25: after every update of the scene each vehicle's speed is at most its
\* maxSpeed and its acceleration is zero, whatever forces the update
\* accumulated before integrating.
C25_SpeedLimitedForcesReset ==
  \A k \in 1..Len(cars) :
    /\ ~ LongerThan(car[cars[k]].velocity, car[cars[k]].maxSpeed)
    /\ car[cars[k]].acceleration = <<0, 0>>

\* An update integrated a vehicle whose accumulated forces, a neighbour's among
\* them, would have taken it beyond maxSpeed.
C25_Witness ==
  \E k \in CarCalls("integrate") :
    LET cr == log[k].cr
        v == Vector2Add(cr.velocity,
                        <<Quot(cr.acceleration[1] * log[k].dt, UpdatesPerSecond),
                          Quot(cr.acceleration[2] * log[k].dt, UpdatesPerSecond)>>)
    IN  /\ LongerThan(v, cr.maxSpeed)
        /\ Len(cars) = 2
        /\ log[k].car = cars[2]
        /\ AvoidOne(cr, car[cars[1]].position) # cr
        /\ car[log[k].car].updates = cr.updates + 1

\* The vehicle cr, alone in the scene, has its front waypoint straight ahead
\* along x, out of the arrival radius, and is at rest or moving toward it.
SeeksStraightAhead(cr) ==
  /\ Len(cars) = 1
  /\ cr.waypoints # <<>>
  /\ LET target == Head(cr.waypoints).position
     IN  /\ target[2] = cr.position[2]
         /\ cr.velocity[2] = 0
         /\ cr.velocity[1] * (target[1] - cr.position[1]) >= 0
         /\ ~ Within(cr.position, target, Fixed(50))

\* C29 (step): a regular frame (dt = 1/60) takes a vehicle that seeks straight
\* ahead strictly closer to its target, without passing it, and leaves it
\* moving toward the target on the same line.
C29Step ==
  \A c \in {cars[k] : k \in 1..Len(cars)} :
    ( /\ SeeksStraightAhead(car[c])
      /\ car'[c].updates = car[c].updates + 1
      /\ log'[Len(log')].dt = 1 )
    => LET target == Head(car[c].waypoints).position
           before == target[1] - car[c].position[1]
           after == target[1] - car'[c].position[1]
       IN  /\ AbsVal(after) < AbsVal(before)
           /\ after * before > 0
           /\ car'[c].position[2] = target[2]
           /\ car'[c].velocity[2] = 0
           /\ car'[c].velocity[1] * before > 0

CallsOf(l, ev) == {k \in 1..Len(l) : l[k].ev = ev}

\* C31: the handler of a vehicle-spawned notification publishes at most one
\* AssignPathEvent. When it is for an entry (it names a facility and a spot),
\* the handler has before it, in this order, set that spot to RESERVED,
\* generated the path to it and stored the parking context on the vehicle; and
\* when the handler is done the spot is RESERVED for the vehicle, whose context
\* names it and whose queue is the generated path.
C31_PublishLast ==
  IsSpawnLog(log) =>
    /\ Cardinality(CallsOf(log, "AssignPathEvent")) <= 1
    /\ \A k \in CallsOf(log, "AssignPathEvent") :
         /\ k = Len(log)
         /\ log[k].car = log[1].car
         /\ log[k].fac # NoModule =>
              \E r \in SetTo(log, "RESERVED") :
              \E g \in CallsOf(log, "GeneratePath") :
              \E x \in CallsOf(log, "setParkingContext") :
                /\ r < g /\ g < x /\ x < k
                /\ \A j \in {r, g, x} :
                     /\ log[j].car = log[k].car
                     /\ log[j].fac = log[k].fac
                     /\ log[j].idx = log[k].idx
                /\ spotState[log[k].fac][log[k].idx] = "RESERVED"
                /\ car[log[k].car].parkedFacility = log[k].fac
                /\ car[log[k].car].parkedSpotIndex = log[k].idx
                /\ car[log[k].car].path =
                     GeneratePath(car[log[k].car], log[k].fac,
                                  modules[log[k].fac].spots[log[k].idx + 1])

\* A vehicle-spawned notification ended with the AssignPathEvent of an entry
\* into a facility in which another vehicle holds a spot.
C31_Witness ==
  /\ IsSpawnLog(log)
  /\ \E k \in CallsOf(log, "AssignPathEvent") : \E c \in Live :
       /\ log[k].fac # NoModule
       /\ c # log[k].car
       /\ car[c].parkedFacility = log[k].fac
       /\ Len(car[log[k].car].path) = 4

\* A step of the tick handler: it leaves the pending CreateCarEvents alone,
\* its log is not that of a vehicle-spawned notification, and when its log is
\* empty no queue has changed (a vehicle's own update changes its queue).
IsTickStep ==
  /\ created' = created /\ nextId' = nextId
  /\ ~ IsSpawnLog(log')
  /\ log' = <<>> => \A c \in CarIds : car'[c].path = car[c].path

\* The calls of log l made for vehicle c during the loop, in order.
LoopCallsFor(l, c) == SelectSeq(l, LAMBDA e : e.car = c /\ e.ev # "removeCar")

\* C32 (step): in a tick every vehicle that was live when it started is
\* evaluated once and whole: what the tick leaves of it, and the calls made for
\* it, are those of one evaluation from the state it had before the tick, also
\* when another vehicle is collected in the same tick. The collected vehicles
\* are removed after the loop: the removeCar calls come last, one per collected
\* vehicle; the other vehicles stay live in their order; and a collected
\* vehicle is one that one evaluation finds EXITING and arrived.
C32Step ==
  IsTickStep =>
    LET gone == {c \in Live : \A k \in 1..Len(cars') : cars'[k] # c}
        removes == CallsOf(log', "removeCar")
    IN  /\ cars' = SelectSeq(cars, LAMBDA c : c \notin gone)
        /\ \A k \in removes : \A j \in 1..Len(log') : j \notin removes => j < k
        /\ \A c \in gone : Cardinality({k \in removes : log'[k].car = c}) = 1
        /\ \A k \in removes : log'[k].car \in gone
        /\ \E amount \in ChargeAmounts :
           \A c \in Live :
           \E d \in Draws :
             LET r == Evaluate(spotState, c, car[c], d, amount)
             IN  /\ r.remove <=> c \in gone
                 /\ c \notin gone => car'[c] = r.cr
                 /\ LoopCallsFor(log', c) = r.log

\* C32: a tick evaluates every live vehicle exactly once and to completion;
\* vehicles that finished exiting are collected during the loop and removed
\* from the live set after it, so the live set is not modified while iterated
\* and no removed vehicle is evaluated again.
C32_EvaluatedOnceRemovedAfter == [][C32Step]_vars

\* A tick removed the first vehicle of the live set and, in the same loop,
\* promoted or released the spot of the vehicle after it.
C32_Witness ==
  \E k \in CallsOf(log, "removeCar") : \E j \in CallsOf(log, "setSpotState") :
    /\ log[k].car < log[j].car
    /\ log[j].car \in Live
    /\ j < k

\* C33: no combustion vehicle has a parking context in a charging station, and
\* every spot of a charging station that is not FREE is held by an electric
\* vehicle; a vehicle-spawned notification that looked for parking (every
\* combustion vehicle's does) reserves in a parking only, also on a map that
\* has charging stations alone: the class is broadened from charging to
\* parking and never the other way.
C33_NoCombustionAtCharging ==
  /\ \A c \in CarIds :
       (car[c].type = "COMBUSTION" /\ car[c].parkedFacility # NoModule)
         => car[c].parkedFacility \in ParkingIds
  /\ \A s \in AllSpots :
       (s[1] \in ChargingIds /\ spotState[s[1]][s[2]] # "FREE")
         => \A c \in Holders(car, s[1], s[2]) : car[c].type = "ELECTRIC"
  /\ IsSpawnLog(log) =>
       /\ car[log[1].car].type = "COMBUSTION" => log[1].to = "parking"
       /\ log[1].to = "parking"
            => \A k \in 1..Len(log) : log[k].fac # NoModule => log[k].fac \in ParkingIds

\* A combustion vehicle was created on a map that has charging stations with
\* FREE spots and no parking: the handler assigned it nothing.
C33_Witness ==
  /\ IsSpawnLog(log)
  /\ car[log[1].car].type = "COMBUSTION"
  /\ ParkingIds = {}
  /\ \E m \in ChargingIds : FreeSpots(spotState, m) # {}
  /\ car[log[1].car].parkedFacility = NoModule
  /\ log[1].car \in Live

\* ------------------------------------------------- ticks keep being delivered

\* The orchestrator with one vehicle per run and the game loop running: a tick
\* that changes something is eventually delivered (each carries dt > 0, hence
\* a charge amount above 0).
TickingNext ==
  \/ SeekSpawnRequest
  \/ CarSpawned
  \/ \E c \in CarIds : CarUpdate(c)
  \/ Tick

TickingSpec == Init /\ [][TickingNext]_vars /\ WF_vars(Tick)

\* C34: while ticks keep being delivered, an electric vehicle PARKED at a
\* charging station eventually decides to exit: it is EXITING.
C34_ChargedVehicleExits ==
  \A c \in CarIds :
    (car[c].state = "PARKED" /\ ChargingStay(c)) ~> (car[c].state = "EXITING")

\* An electric vehicle is PARKED at a charging station with a battery that no
\* single tick takes above the exit threshold.
C34_Witness ==
  \E c \in Live :
    /\ car[c].state = "PARKED" /\ ChargingStay(c)
    /\ \A amount \in ChargeAmounts : car[c].battery + amount <= BATTERY_EXIT_THRESHOLD

\* ---------------------------------------------- vehicles and timers progress

\* The tick at which the PARKED vehicle c decides to exit.
Leave(c) == Tick /\ car[c].state = "PARKED" /\ car'[c].state = "EXITING"

\* The orchestrator with one vehicle per run where ticks keep being delivered,
\* every vehicle with waypoints keeps being updated, and a parked vehicle whose
\* exit decision stays possible (timer expired, battery charged) takes it.
FlowSpec ==
  /\ Init /\ [][TickingNext]_vars
  /\ WF_vars(Tick)
  /\ \A c \in CarIds : WF_vars(CarUpdate(c)) /\ WF_vars(Leave(c))

\* Every RESERVED spot eventually becomes FREE again.
SpotsOfMaps ==
  UNION {UNION {{<<m, i>> : i \in 0 .. (Len(g[m].spots) - 1)} : m \in 1..Len(g)} :
           g \in MapsOf(GeneratedMaps)}

SpotsReleased ==
  \A s \in SpotsOfMaps :
    (s \in AllSpots /\ spotState[s[1]][s[2]] = "RESERVED")
      ~> (s \in AllSpots /\ spotState[s[1]][s[2]] = "FREE")

\* Every live vehicle that holds a path is eventually removed.
RoutedVehiclesRemoved ==
  \A c \in CarIds : (c \in Live /\ car[c].path # <<>>) ~> (c \notin Live)

\* C35: with ticks delivered, timers expiring and vehicles reaching the end of
\* their waypoint queues, every spawned vehicle is eventually removed from the
\* live set and every RESERVED spot eventually becomes FREE again.
C35_NothingStuck ==
  /\ \A c \in CarIds : (c \in Live) ~> (c \notin Live)
  /\ SpotsReleased

\* ------------------------------------------------------------ spot accounting

\* The spots that are RESERVED or OCCUPIED.
TakenSpots == {s \in AllSpots : spotState[s[1]][s[2]] # "FREE"}

\* The live vehicles that hold a reservation they have not released.
ReservationHolders ==
  {c \in Live : /\ car[c].state \in {"DRIVING", "ALIGNING", "PARKED"}
                /\ car[c].parkedFacility # NoModule}

\* C36: in every reachable state the three counts of each facility add up to
\* its number of spots, there are as many RESERVED or OCCUPIED spots as live
\* vehicles that are DRIVING, ALIGNING or PARKED with a parking context, and
\* every RESERVED or OCCUPIED spot is that of a vehicle still in the live set.
C36_SpotsAccounted ==
  /\ \A m \in FacilityIds :
       \E n \in {getSpotCounts(spotState, m)} :
         n.free + n.reserved + n.occupied = Len(modules[m].spots)
  /\ Cardinality(TakenSpots) = Cardinality(ReservationHolders)
  /\ \A s \in TakenSpots : Holders(car, s[1], s[2]) \cap Live # {}

\* A vehicle has just been removed while the other one holds the only taken
\* spot: the tick that removed the first promoted the spot of the second.
C36_Witness ==
  /\ \E k \in 1..Len(log) : log[k].ev = "removeCar"
  /\ \E k \in SetTo(log, "OCCUPIED") : log[k].car \in ReservationHolders
  /\ Cardinality(TakenSpots) = 1

\* ------------------------------------------------- exit and despawn in a tick

\* The log l holds an exit decision for vehicle c.
ExitDecided(l, c) == \E k \in ExitDecisions(l) : l[k].car = c

\* C37 (one step): a vehicle for which a tick takes the exit decision is live
\* after that tick, EXITING, with a non-empty queue and not arrived; a vehicle
\* that a step removes was EXITING with its queue consumed and arrived before
\* that step, and the step made no exit decision for it.
C37Step ==
  \A c \in CarIds :
    /\ (c \in Live /\ car[c].state # "EXITING" /\ ExitDecided(log', c))
         => /\ c \in Live'
            /\ car'[c].state = "EXITING"
            /\ car'[c].path # <<>>
            /\ ~ hasArrived(car'[c])
            /\ \A k \in CallsOf(log', "removeCar") : log'[k].car # c
    /\ (c \in Live /\ c \notin Live')
         => /\ car[c].state = "EXITING"
            /\ car[c].path = <<>>
            /\ hasArrived(car[c])
            /\ ~ ExitDecided(log', c)

\* C37: a vehicle that switches to EXITING during a tick is not removed in
\* that tick; it is removed in a later tick, which finds it EXITING with its
\* exit path traversed.
C37_NotRemovedWhenSwitching == [][C37Step]_vars

\* A tick has removed one vehicle and taken the exit decision for another,
\* which is still live with its exit path ahead of it.
C37_Witness ==
  /\ CallsOf(log, "removeCar") # {}
  /\ \E c \in Live :
       /\ ExitDecided(log, c)
       /\ car[c].state = "EXITING"
       /\ car[c].path # <<>>

\* ------------------------------------------------- the context kept on exit

\* C38 (one step): for a vehicle a that is EXITING with the context of the spot
\* it left, a step that is not a vehicle-spawned notification makes no call for
\* a other than its removal, and changes that spot only for another vehicle b
\* that holds it: to OCCUPIED when b is ALIGNING or PARKED, to FREE when b is
\* PARKED and goes EXITING.
C38Step ==
  \A a \in CarIds :
    (/\ a \in Live
     /\ car[a].state = "EXITING"
     /\ car[a].parkedFacility # NoModule /\ car[a].parkedSpotIndex # NoSpot
     /\ ~ IsSpawnLog(log'))
      => LET m == car[a].parkedFacility
             i == car[a].parkedSpotIndex
         IN  /\ \A k \in 1..Len(log') : log'[k].car = a => log'[k].ev = "removeCar"
             /\ spotState'[m][i] # spotState[m][i]
                  => \E b \in Holders(car, m, i) \ {a} :
                       /\ \E k \in CallsOf(log', "setSpotState") :
                            log'[k].car = b /\ log'[k].fac = m /\ log'[k].idx = i
                       /\ \/ /\ spotState'[m][i] = "OCCUPIED"
                             /\ car[b].state \in {"ALIGNING", "PARKED"}
                          \/ /\ spotState'[m][i] = "FREE"
                             /\ car[b].state = "PARKED"
                             /\ car'[b].state = "EXITING"

\* C38: while a vehicle is EXITING no tick changes the spot of its retained
\* parking context on its account; when another vehicle has reserved that
\* spot, the spot is promoted and released by that vehicle's state alone.
C38_StaleContextInert == [][C38Step]_vars

\* A tick has promoted, for its new holder, the spot that a vehicle still
\* EXITING since before that tick keeps in its context.
C38_Witness ==
  \E a, b \in Live :
    /\ a # b
    /\ car[a].state = "EXITING" /\ ~ ExitDecided(log, a)
    /\ car[a].parkedFacility # NoModule
    /\ b \in Holders(car, car[a].parkedFacility, car[a].parkedSpotIndex)
    /\ \E k \in SetTo(log, "OCCUPIED") :
         /\ log[k].car = b
         /\ log[k].fac = car[a].parkedFacility
         /\ log[k].idx = car[a].parkedSpotIndex

\* ------------------------------------------- a parked vehicle without facility

\* A vehicle that came to rest at a stopping waypoint without the orchestrator
\* having stored a parking context on it.
StrandedCar(e, battery) ==
  [NewCar(e, battery) EXCEPT !.state = "PARKED", !.arrived = TRUE]

\* The orchestrator on a map where such a vehicle is live.
StrandedInit ==
  /\ map \in MapsOf(GeneratedMaps)
  /\ spotState = [m \in 1..Len(map) |->
                    [i \in 0 .. (Len(map[m].spots) - 1) |-> "FREE"]]
  /\ cars = <<1>>
  /\ \E spawnLeft \in BOOLEAN, carType \in CarTypes, priority \in Priorities :
     \E battery \in (IF carType = "ELECTRIC" THEN BatteryLevels ELSE {100}) :
       car = [c \in CarIds |->
                IF c = 1
                THEN StrandedCar(CreateCarEvent(spawnLeft, carType, priority), battery)
                ELSE NoCar]
  /\ nextId = 1
  /\ created = <<>>
  /\ log = <<>>

StrandedSpec == StrandedInit /\ [][Next]_vars

\* The vehicles that are PARKED with no facility in their context.
Stranded == {c \in Live : car[c].state = "PARKED" /\ car[c].parkedFacility = NoModule}

\* C39 (one step): for a PARKED vehicle without facility, the iteration that
\* decides to exit leaves the spot states as it found them, the vehicle DRIVING
\* and otherwise as it was, makes no call and does not collect the vehicle; and
\* a step leaves such a vehicle live, either as it was or DRIVING with the same
\* queue and context, with no call logged for it and every spot it changes
\* named by a call made for another vehicle.
C39Step ==
  \A c \in Stranded :
    /\ \A amount \in ChargeAmounts : \A d \in DrawsOf(car[c], amount) :
         ParkedLogic(car[c], d.ready, d.band, amount).shouldExit
           => Evaluate(spotState, c, car[c], d, amount)
                = [ss |-> spotState, cr |-> [car[c] EXCEPT !.state = "DRIVING"],
                   log |-> <<>>, remove |-> FALSE]
    /\ c \in Live'
    /\ car'[c] \in {car[c], [car[c] EXCEPT !.state = "DRIVING"]}
    /\ \A k \in 1..Len(log') : log'[k].car # c
    /\ \A s \in ChangedSpots :
         \E k \in CallsOf(log', "setSpotState") : log'[k].fac = s[1] /\ log'[k].idx = s[2]

\* C39: when a PARKED vehicle whose parking context has no facility decides to
\* exit, the tick sets it DRIVING, changes no spot state, assigns it no exit
\* path and does not despawn it.
C39_NoFacilityBackToDriving == [][C39Step]_vars

\* A vehicle that had arrived is live and DRIVING with no facility and an empty
\* queue: the tick took it out of PARKED.
C39_Witness ==
  \E c \in Live :
    /\ car[c].state = "DRIVING"
    /\ car[c].parkedFacility = NoModule
    /\ hasArrived(car[c])
    /\ car[c].path = <<>>

====
